---- MODULE Spec2Model ----
(***************************************************************************)
(* A model of ImportMapImporter: the import-map resolver, the recursive,   *)
(* cycle-safe transformation of a module graph into cache artifacts, and   *)
(* the import() entry point with its in-memory module cache.               *)
(*                                                                         *)
(* Strings are sequences of tokens.  A token is one character of the       *)
(* source string, except that a URL scheme ("file:", "https:") and a name  *)
(* ("a", "lib") are one token each.  startsWith, slice and concatenation   *)
(* are computed on these sequences.                                        *)
(***************************************************************************)
EXTENDS Naturals, Sequences, FiniteSets, TLC, Integers

VARIABLES
    \* ---- the resolver applied to one input -------------------------------
    rImports,       \* Object.entries(importMap.imports): <<key, value>> pairs
    rScopes,        \* #scopeEntries: <<scope, entries>> pairs, insertion order
    rUrl,           \* urlString of the importing module
    rSpecifier,     \* the specifier handed to the replacer
    rResult,        \* what the replacer returned
    rDone,          \* the replacer has been applied
    \* ---- replaceImportMeta applied to one input --------------------------
    mText,          \* sourceCode
    mUrl,           \* originalUrl
    mResult,        \* the returned text
    mDone,          \* replaceImportMeta has been applied
    \* ---- getCachePath applied to two inputs, one after the other ---------
    hArgs,          \* the two argument triples <<specifier, sourceCode, importMap>>
    hResult,        \* the cache paths returned so far, in call order
    \* ---- resolveImportMap applied to one input ---------------------------
    lMap,           \* importMap: imports and scopes as Object.entries lists
    lPath,          \* options.path
    lResult,        \* the returned import map
    lDone,          \* resolveImportMap has been applied
    \* ---- findMissingImports applied to one input -------------------------
    fSegments,      \* sourceCode, as the pieces it was written in
    fReplacements,  \* specifierReplacements
    fExisting,      \* existingReplacements
    fResult,        \* the returned replacements
    fDone,          \* findMissingImports has been applied
    \* ---- the module-level state of replace_imports.ts ---------------------
    denoGraphInitialized,   \* let denoGraphInitialized
    initializationPromise,  \* let initializationPromise, by its state
    inits,          \* number of init() invocations
    gpc,            \* where each replaceImports call stands
    \* ---- the environment of one ImportMapImporter instance ---------------
    importMap,      \* the constructor's import map, as its pre-processed entries
    faults,         \* the I/O operations that fail: <<"read" or "write", module URL>>
    bodies,         \* the texts a module source may have besides its import clauses
    inst,           \* which ImportMapImporter instance the program is using,
                    \* and the private fields of the instances it is not using
    source,         \* module URL -> source text of the module (files, network)
    known,          \* the module URLs whose source has been fixed by a first read
    disk,           \* cache URL -> content of the cache artifact written there
    hostLoaded,     \* URLs in the host runtime's module registry
    clearDenoCache, \* options.clearDenoCache
    denoCache,      \* the files of the host's own cache (DENO_DIR): the cached
                    \* artifact and the metadata sidecar of module URLs
    \* ---- the private fields of the instance ------------------------------
    cache,                  \* #cache: requested specifier -> module object
    transformedModules,     \* #transformedModules: module URL -> cache URL
    processingModules,      \* #processingModules
    transformationPromises, \* keys of #transformationPromises
    \* ---- the in-flight #transformModule bodies, one per module URL -------
    tpc,            \* where the body of the transformation of a URL stands
    tcode,          \* its originalCode / transformedCode / final code
    tcacheUrl,      \* its local cacheUrl
    tpending,       \* its dependency promises that have not settled
    tt2c,           \* its transformedToCachedUrls
    \* ---- the import() calls ----------------------------------------------
    ipc,            \* where each import() call stands
    ispec,          \* its specifier argument
    iwait,          \* the module URL whose transformation promise it awaits
    iurl,           \* its transformedUrl
    iresult,        \* the module object it returned
    \* ---- counters of effects ---------------------------------------------
    reads,          \* module URL -> number of #readModuleContent calls
    writes,         \* number of #writeToCache calls completed
    loads,          \* number of host import(transformedUrl) calls
    resolved,       \* the module URLs whose replacer has been invoked
    rejections      \* the transformation promises that rejected, with the
                    \* `.catch` callbacks that ran and the calls being served

rvars == <<rImports, rScopes, rUrl, rSpecifier, rResult, rDone>>

mvars == <<mText, mUrl, mResult, mDone>>

hvars == <<hArgs, hResult>>

lvars == <<lMap, lPath, lResult, lDone>>

fvars == <<fSegments, fReplacements, fExisting, fResult, fDone>>

gvars == <<denoGraphInitialized, initializationPromise, inits, gpc>>

purevars == <<rvars, mvars, hvars, lvars, fvars, gvars>>

\* what no step of an instance's work changes
givens == <<importMap, faults, bodies, inst, clearDenoCache>>

envvars == <<givens, source, known, disk, hostLoaded, denoCache>>

fieldvars == <<cache, transformedModules, processingModules,
               transformationPromises>>

taskvars == <<tpc, tcode, tcacheUrl, tpending, tt2c>>

callvars == <<ipc, ispec, iwait, iurl, iresult>>

countvars == <<reads, writes, loads>>

histvars == <<resolved, rejections>>

evars == <<envvars, fieldvars, taskvars, callvars, countvars, histvars>>

vars == <<purevars, evars>>

(***************************************************************************)
(* Bounds                                                                  *)
(***************************************************************************)
MaxEntries == 2     \* entries of one imports object
MaxScopes == 2      \* scopes of one import map
MaxImports == 2     \* import clauses of one module source
MaxCalls == 2       \* import() calls made on the instance
MaxFaults == 1      \* I/O operations that fail
MaxHashCalls == 2   \* getCachePath calls made one after the other
MaxInstances == 2   \* ImportMapImporter instances constructed
MaxEdits == 1       \* changes made to module files while the program runs
MaxPieces == 2      \* pieces of one source text given to findMissingImports
MaxGraphCalls == 3  \* replaceImports calls that overlap in time

(***************************************************************************)
(* String helpers (String.prototype.startsWith, slice, +)                  *)
(***************************************************************************)
StartsWith(s, p) == Len(s) >= Len(p) /\ SubSeq(s, 1, Len(p)) = p

Slice(s, n) == SubSeq(s, n + 1, Len(s))

Min(S) == CHOOSE x \in S : \A y \in S : x <= y

(***************************************************************************)
(* #createOptimizedReplacer                                                *)
(***************************************************************************)
\* the test of one entry: specifier === key || specifier.startsWith(key + "/")
KeyMatches(key, specifier) ==
    specifier = key \/ StartsWith(specifier, key \o <<"/">>)

\* const suffix = specifier.slice(key.length); return value + suffix;
ApplyEntry(key, value, specifier) == value \o Slice(specifier, Len(key))

\* index of the first entry of the for-loop that matches, 0 when none does
FirstMatch(entries, specifier) ==
    LET hits == {i \in 1..Len(entries) : KeyMatches(entries[i][1], specifier)}
    IN  IF hits = {} THEN 0 ELSE Min(hits)

\* a variant in which every scope applies to every importing URL
ScopeAppliesAlways(urlString, scope) == TRUE

\* if (urlString.startsWith(scope))
ScopeApplies(urlString, scope) == StartsWith(urlString, scope)

\* a variant that takes, among the scopes whose loop would return, the one
\* with the longest key
FirstScopeLongest(scopeEntries, urlString, specifier) ==
    LET hits == {j \in 1..Len(scopeEntries) :
                    /\ ScopeApplies(urlString, scopeEntries[j][1])
                    /\ FirstMatch(scopeEntries[j][2], specifier) # 0}
    IN  IF hits = {} THEN 0
        ELSE CHOOSE j \in hits :
                \A h \in hits :
                    \/ Len(scopeEntries[h][1]) < Len(scopeEntries[j][1])
                    \/ (Len(scopeEntries[h][1]) = Len(scopeEntries[j][1])
                        /\ j <= h)

\* index of the first scope whose loop returns, 0 when none does
FirstScope(scopeEntries, urlString, specifier) ==
    LET hits == {j \in 1..Len(scopeEntries) :
                    /\ ScopeApplies(urlString, scopeEntries[j][1])
                    /\ FirstMatch(scopeEntries[j][2], specifier) # 0}
    IN  IF hits = {} THEN 0 ELSE Min(hits)

\* the replacer returned by #createOptimizedReplacer(urlString)
applyImportMapToSpecifier(importEntries, scopeEntries, urlString, specifier) ==
    LET i == FirstMatch(importEntries, specifier)
        j == FirstScope(scopeEntries, urlString, specifier)
    IN  IF i # 0
        THEN ApplyEntry(importEntries[i][1], importEntries[i][2], specifier)
        ELSE IF j # 0
        THEN LET es == scopeEntries[j][2]
                 k == FirstMatch(es, specifier)
             IN  ApplyEntry(es[k][1], es[k][2], specifier)
        ELSE specifier

(***************************************************************************)
(* The resolver on bounded inputs                                          *)
(***************************************************************************)
RKeys == { <<"a">>, <<"a", "/">>, <<"a", "/", "b">> }
RValues == { <<"T">>, <<"U", "/">> }
RSpecifiers == { <<"a">>, <<"a", "/", "b">>, <<"a", "/">>, <<"c">>,
                 <<"a", "/", "/", "b">> }
RScopeKeys == { <<"f", "/">>, <<"f", "/", "d", "/">>, <<"g", "/">> }
RUrls == { <<"f", "/", "d", "/", "m">>, <<"g", "/", "m">> }

\* sequences of at most n pairs <<k, v>> with pairwise distinct keys
RECURSIVE EntrySeqs(_, _, _)
EntrySeqs(keys, values, n) ==
    IF n = 0 THEN { <<>> }
    ELSE LET shorter == EntrySeqs(keys, values, n - 1)
         IN  shorter \cup
             { Append(es, <<k, v>>) :
                 es \in { e \in shorter : Len(e) = n - 1 },
                 k \in keys, v \in values }

DistinctKeys(es) == \A i, j \in 1..Len(es) : es[i][1] = es[j][1] => i = j

RImportEntries ==
    { es \in EntrySeqs(RKeys, RValues, MaxEntries) : DistinctKeys(es) }

RScopeEntries ==
    { ss \in EntrySeqs(RScopeKeys, EntrySeqs(RKeys, RValues, 1), MaxScopes) :
        DistinctKeys(ss) }

(***************************************************************************)
(* URLs and specifiers of the modelled module universe                     *)
(***************************************************************************)
FileRoot == <<"file:", "/", "/", "/">>                  \* file:///
UrlA == FileRoot \o <<"a">>                             \* file:///a
UrlB == FileRoot \o <<"b">>                             \* file:///b
UrlR == <<"https:", "/", "/", "h", "/", "r">>           \* https://h/r
ImporterUrl == FileRoot \o <<"m">>     \* import.meta.url of the importer
CacheRoot == FileRoot \o <<"cache", "/">>               \* file://<#cacheDir>/

Urls == { UrlA, UrlB, UrlR }

RelA == <<".", "/", "a">>                               \* "./a"
RelB == <<".", "/", "b">>                               \* "./b"
Lib == <<"lib">>                                        \* bare "lib"

\* the specifiers import() is called with
RootSpecifiers == { RelA, UrlB }

\* pre-processed import maps an instance may be constructed with
ImportMaps ==
    { [imports |-> <<>>, scopes |-> <<>>],
      [imports |-> << <<Lib, UrlR>> >>, scopes |-> <<>>],
      [imports |-> << <<Lib, RelB>> >>, scopes |-> <<>>],
      [imports |-> <<>>,
       scopes |-> << <<FileRoot, << <<Lib, UrlB>> >> >> >>] }

NoUrl == <<>>

\* firstChar === "." || firstChar === "/" || specifier.startsWith("file://")
isRelativeOrFileUrl(specifier) ==
    \/ Len(specifier) > 0 /\ specifier[1] \in {".", "/"}
    \/ StartsWith(specifier, <<"file:", "/", "/">>)

\* specifier.startsWith("http://") || specifier.startsWith("https://")
isHttpUrl(specifier) ==
    \/ StartsWith(specifier, <<"http:", "/", "/">>)
    \/ StartsWith(specifier, <<"https:", "/", "/">>)

\* /^(https?:|data:|npm:|jsr:)/i.test(specifier)
isRemoteSpecifier(specifier) ==
    Len(specifier) > 0 /\
    specifier[1] \in {"http:", "https:", "data:", "npm:", "jsr:"}

\* new URL(specifier, base).href for the specifier shapes of the universe:
\* an absolute URL, a path-absolute reference, or a path relative to the
\* directory of base (with or without a leading "./").
HasScheme(s) == Len(s) > 0 /\ s[1] \in {"file:", "http:", "https:"}

Origin(base) == IF base[1] = "file:" THEN SubSeq(base, 1, 3)
                ELSE SubSeq(base, 1, 4)

DirOf(base) ==
    LET slashes == {i \in 1..Len(base) : base[i] = "/"}
        last == CHOOSE i \in slashes : \A k \in slashes : k <= i
    IN  SubSeq(base, 1, last)

NewURL(specifier, base) ==
    IF HasScheme(specifier) THEN specifier
    ELSE IF Len(specifier) > 0 /\ specifier[1] = "/"
    THEN Origin(base) \o specifier
    ELSE IF StartsWith(specifier, <<".", "/">>)
    THEN DirOf(base) \o Slice(specifier, 2)
    ELSE DirOf(base) \o specifier

(***************************************************************************)
(* replaceImportMeta.  A text is a sequence of lexemes: a word, a          *)
(* punctuation character, a white-space character, and, inside a string    *)
(* built from a URL, the tokens of that URL.                                *)
(***************************************************************************)
Quote == "\""

IsSpace(t) == t \in {" ", "\n"}

\* lexemes that are no word characters (\W)
NonWord == {" ", "\n", ".", "(", ")", ",", ";", "=", "/", "-", "$", "&", "'",
            "\\", Quote}

\* \b in front of a word: the previous character is no word character
WordBoundaryBefore(text, i) ==
    i = 1 \/ text[i - 1] \in NonWord \/ text[i - 1] \in {"file:", "https:"}

\* \b behind a word: the next character is no word character
WordBoundaryAfter(text, i) == i = Len(text) \/ text[i + 1] \in NonWord

\* \s* from position i on: the first position that holds no white space
RECURSIVE SkipSpaces(_, _)
SkipSpaces(text, i) ==
    IF i <= Len(text) /\ IsSpace(text[i]) THEN SkipSpaces(text, i + 1) ELSE i

Holds(text, i, t) == i <= Len(text) /\ text[i] = t

\* /\bimport\s*\.\s*meta\s*\.\s*/ at position i: the position of the
\* property name that follows, 0 when the text does not match at i
MetaPropertyAt(text, i) ==
    IF ~(Holds(text, i, "import") /\ WordBoundaryBefore(text, i)) THEN 0
    ELSE LET d1 == SkipSpaces(text, i + 1)
             m == SkipSpaces(text, d1 + 1)
             d2 == SkipSpaces(text, m + 1)
         IN  IF Holds(text, d1, ".") /\ Holds(text, m, "meta")
                /\ Holds(text, d2, ".")
             THEN SkipSpaces(text, d2 + 1) ELSE 0

\* /\bimport\s*\.\s*meta\s*\.\s*<property>\b/ at position i: the position
\* of the last lexeme of the match, 0 when there is no match at i
MatchProperty(text, i, property) ==
    LET q == MetaPropertyAt(text, i)
    IN  IF q # 0 /\ Holds(text, q, property) /\ WordBoundaryAfter(text, q)
        THEN q ELSE 0

\* the replacement string of String.prototype.replace (GetSubstitution):
\* $$ is a dollar sign, $& the matched text, $' the text after the match;
\* the regular expressions have no capture group, so every other $ stands
\* for itself (a grave accent, which would make $ stand for the text before
\* the match, is percent-encoded in a URL and does not occur)
RECURSIVE ExpandReplacement(_, _, _)
ExpandReplacement(replacement, matched, after) ==
    IF replacement = <<>> THEN <<>>
    ELSE IF Head(replacement) = "$" /\ Len(replacement) > 1
            /\ replacement[2] \in {"$", "&", "'"}
    THEN (CASE replacement[2] = "$" -> <<"$">>
            [] replacement[2] = "&" -> matched
            [] replacement[2] = "'" -> after)
         \o ExpandReplacement(Slice(replacement, 2), matched, after)
    ELSE <<Head(replacement)>>
         \o ExpandReplacement(Tail(replacement), matched, after)

\* text.replace(/...<property>\b/g, replacement) from position i on
RECURSIVE ReplaceProperty(_, _, _, _)
ReplaceProperty(text, i, property, replacement) ==
    IF i > Len(text) THEN <<>>
    ELSE LET e == MatchProperty(text, i, property)
         IN  IF e # 0
             THEN ExpandReplacement(replacement, SubSeq(text, i, e),
                                    SubSeq(text, e + 1, Len(text)))
                  \o ReplaceProperty(text, e + 1, property, replacement)
             ELSE <<text[i]>>
                  \o ReplaceProperty(text, i + 1, property, replacement)

\* arg.trim()
RECURSIVE Trim(_)
Trim(arg) ==
    IF arg = <<>> THEN <<>>
    ELSE IF IsSpace(Head(arg)) THEN Trim(Tail(arg))
    ELSE IF IsSpace(arg[Len(arg)]) THEN Trim(SubSeq(arg, 1, Len(arg) - 1))
    ELSE arg

\* /\bimport\s*\.\s*meta\s*\.\s*resolve\s*\(\s*([^)]+)\s*\)/ at position i:
\* <<position of "(", position of the first ")" behind it>>, <<0, 0>> when
\* there is no match at i
MatchResolve(text, i) ==
    LET q == MetaPropertyAt(text, i)
        open == SkipSpaces(text, q + 1)
        closes == {k \in (open + 1)..Len(text) : text[k] = ")"}
        close == CHOOSE k \in closes : \A k2 \in closes : k <= k2
    IN  IF q # 0 /\ Holds(text, q, "resolve") /\ Holds(text, open, "(")
           /\ closes # {} /\ close > open + 1
        THEN <<open, close>> ELSE <<0, 0>>

\* `new URL(${trimmedArg}, "${escapedUrl}").href`
ResolveExpression(arg, escapedUrl) ==
    <<"new", " ", "URL", "(">> \o Trim(arg) \o <<",", " ", Quote>>
    \o escapedUrl \o <<Quote, ")", ".", "href">>

\* text.replace(importMetaResolveRegex, (_match, arg) => ...) from i on
RECURSIVE ReplaceResolve(_, _, _)
ReplaceResolve(text, i, escapedUrl) ==
    IF i > Len(text) THEN <<>>
    ELSE LET m == MatchResolve(text, i)
         IN  IF m[1] # 0
             THEN ResolveExpression(SubSeq(text, m[1] + 1, m[2] - 1),
                                    escapedUrl)
                  \o ReplaceResolve(text, m[2] + 1, escapedUrl)
             ELSE <<text[i]>> \o ReplaceResolve(text, i + 1, escapedUrl)

\* JSON.stringify(s).slice(1, -1)
RECURSIVE JsonEscape(_)
JsonEscape(str) ==
    IF str = <<>> THEN <<>>
    ELSE (CASE Head(str) = Quote -> <<"\\", Quote>>
            [] Head(str) = "\\" -> <<"\\", "\\">>
            [] Head(str) = "\n" -> <<"\\", "n">>
            [] OTHER -> <<Head(str)>>)
         \o JsonEscape(Tail(str))

\* fromFileUrl(url) of a file: URL without host, on a POSIX system
fromFileUrl(url) == SubSeq(url, 4, Len(url))

\* dirname(path) of @std/path for an absolute path without trailing slash
pathDirname(path) ==
    LET slashes == {i \in 1..Len(path) : path[i] = "/"}
        last == CHOOSE i \in slashes : \A k \in slashes : k <= i
    IN  IF last = 1 THEN <<"/">> ELSE SubSeq(path, 1, last - 1)

StringLiteral(str) == <<Quote>> \o str \o <<Quote>>

replaceImportMeta(sourceCode, originalUrl) ==
    LET escapedUrl == JsonEscape(originalUrl)
        isFile == SubSeq(originalUrl, 1, 3) = <<"file:", "/", "/">>
        filename == IF isFile THEN JsonEscape(fromFileUrl(originalUrl))
                    ELSE <<>>
        dirname == IF isFile
                   THEN JsonEscape(pathDirname(fromFileUrl(originalUrl)))
                   ELSE <<>>
        r1 == ReplaceProperty(sourceCode, 1, "url", StringLiteral(escapedUrl))
        r2 == IF filename # <<>>
              THEN ReplaceProperty(r1, 1, "filename", StringLiteral(filename))
              ELSE r1
        r3 == IF dirname # <<>>
              THEN ReplaceProperty(r2, 1, "dirname", StringLiteral(dirname))
              ELSE r2
    IN  ReplaceResolve(r3, 1, escapedUrl)

\* /\bimport\s*\.\s*meta\s*\.\s*(url|filename|dirname|resolve\s*\()/.test(code)
hasImportMetaUrl(text) ==
    \E i \in 1..Len(text) :
        LET q == MetaPropertyAt(text, i)
        IN  /\ q # 0
            /\ \/ \E w \in {"url", "filename", "dirname"} : Holds(text, q, w)
               \/ /\ Holds(text, q, "resolve")
                  /\ Holds(text, SkipSpaces(text, q + 1), "(")

(***************************************************************************)
(* Module code.  A code text is the banner comment in front, the sequence   *)
(* of the specifiers of its static import/export-from clauses, and the     *)
(* text that follows them.                                                 *)
(***************************************************************************)
Code(banner, imports, body) ==
    [banner |-> banner, imports |-> imports, body |-> body]

NoCode == Code(<<>>, <<>>, <<>>)

\* /(?:import|export)\s+(?:.*\s+from\s+|)['"]/ at position i of a text:
\* the word, white space, and then either a quote or, on the same line,
\* white space, "from", white space and a quote
ImportPatternAt(text, i) ==
    /\ text[i] \in {"import", "export"}
    /\ i < Len(text)
    /\ IsSpace(text[i + 1])
    /\ \/ Holds(text, SkipSpaces(text, i + 1), Quote)
       \/ Holds(text, SkipSpaces(text, i + 1), "'")
       \/ \E f \in (i + 3)..(Len(text) - 1) :
            /\ text[f] = "from"
            /\ IsSpace(text[f - 1])
            /\ IsSpace(text[f + 1])
            /\ \A k \in (i + 2)..(f - 2) : text[k] # "\n"
            /\ \/ Holds(text, SkipSpaces(text, f + 1), Quote)
               \/ Holds(text, SkipSpaces(text, f + 1), "'")

\* /(?:import|export)\s+(?:.*\s+from\s+|)['"]/m.test(code): every import
\* clause matches, and so does a look-alike in a comment or a string
hasImports(code) ==
    \/ code.imports # <<>>
    \/ \E i \in 1..Len(code.body) : ImportPatternAt(code.body, i)

\* createOriginalUrlComment(urlString) + finalCode
WithBanner(urlString, code) == Code(urlString, code.imports, code.body)

\* replaceImportMeta(code, urlString): import clauses hold no import.meta
MetaReplaced(urlString, code) ==
    Code(code.banner, code.imports, replaceImportMeta(code.body, urlString))

\* the finalCode of #cacheModule(urlString, code)
CacheModuleCode(urlString, code) ==
    LET processedCode == IF hasImportMetaUrl(code.body)
                         THEN MetaReplaced(urlString, code) ELSE code
    IN  IF processedCode # code THEN WithBanner(urlString, processedCode)
        ELSE processedCode

\* the text of a code as one string, as JSON.stringify sees it
RECURSIVE JoinSpecifiers(_)
JoinSpecifiers(imports) ==
    IF imports = <<>> THEN <<>>
    ELSE <<"'">> \o Head(imports) \o <<"'">> \o JoinSpecifiers(Tail(imports))

CodeText(code) ==
    <<"//">> \o code.banner \o <<";">> \o JoinSpecifiers(code.imports)
    \o <<";">> \o code.body

\* JSON.stringify of a string
JsonString(str) == <<Quote>> \o JsonEscape(str) \o <<Quote>>

\* JSON.stringify of an object with string values: its entries in
\* insertion order
RECURSIVE EntriesText(_)
EntriesText(entries) ==
    IF entries = <<>> THEN <<>>
    ELSE JsonString(Head(entries)[1]) \o <<":">> \o JsonString(Head(entries)[2])
         \o (IF Len(entries) > 1 THEN <<",">> ELSE <<>>)
         \o EntriesText(Tail(entries))

RECURSIVE ScopesText(_)
ScopesText(scopes) ==
    IF scopes = <<>> THEN <<>>
    ELSE JsonString(Head(scopes)[1]) \o <<":", "{">>
         \o EntriesText(Head(scopes)[2]) \o <<"}">>
         \o (IF Len(scopes) > 1 THEN <<",">> ELSE <<>>)
         \o ScopesText(Tail(scopes))

\* JSON.stringify({ specifier, code: sourceCode, importMap })
HashInput(specifier, code, im) ==
    <<"{", Quote, "specifier", Quote, ":">> \o JsonString(specifier)
    \o <<",", Quote, "code", Quote, ":">> \o JsonString(CodeText(code))
    \o <<",", Quote, "importMap", Quote, ":", "{", Quote, "imports", Quote,
         ":", "{">> \o EntriesText(im.imports)
    \o <<"}", ",", Quote, "scopes", Quote, ":", "{">> \o ScopesText(im.scopes)
    \o <<"}", "}", "}">>

\* the number of hexadecimal digits of a SHA-256 digest: 32 bytes, two
\* digits each
HashLength == 64

\* the hexadecimal digits of the SHA-256 digest of a text.  SHA-256 is
\* taken as collision-free: the first symbol stands for the text that was
\* hashed, every other symbol for one digit that is left open
HexDigits(text) ==
    [i \in 1..HashLength |-> IF i = 1 THEN ToString(text) ELSE "x"]

\* a variant that leaves the import map out of the hashed text
getCacheHashHexWithoutMap(specifier, code, im) ==
    HexDigits(HashInput(specifier, code, [imports |-> <<>>, scopes |-> <<>>]))

\* getCacheHashHex: the digest of the serialized triple, in hexadecimal
getCacheHashHex(specifier, code, im) ==
    HexDigits(HashInput(specifier, code, im))

\* new URL(specifier).pathname: what follows the origin, up to the query
\* string or the fragment
Pathname(specifier) ==
    LET rest == Slice(specifier, Len(Origin(specifier)))
        stops == {i \in 1..Len(rest) : rest[i] \in {"?", "#"}}
    IN  IF stops = {} THEN rest ELSE SubSeq(rest, 1, Min(stops) - 1)

\* pathname.split("/").filter(Boolean).pop(): the last non-empty segment
RECURSIVE LastSegment(_)
LastSegment(path) ==
    IF path = <<>> THEN <<>>
    ELSE IF path[Len(path)] = "/"
    THEN LastSegment(SubSeq(path, 1, Len(path) - 1))
    ELSE LET slashes == {i \in 1..Len(path) : path[i] = "/"}
         IN  IF slashes = {} THEN path
             ELSE SubSeq(path, (CHOOSE i \in slashes :
                                   \A k \in slashes : k <= i) + 1, Len(path))

\* a variant that takes what follows the last slash of the specifier
BasenameOfSpecifier(specifier) ==
    LET slashes == {i \in 1..Len(specifier) : specifier[i] = "/"}
        last == CHOOSE i \in slashes : \A k \in slashes : k <= i
    IN  SubSeq(specifier, last + 1, Len(specifier))

\* pathParts.pop() || "index.ts"
Basename(specifier) ==
    LET filename == LastSegment(Pathname(specifier))
    IN  IF filename = <<>> THEN <<"index.ts">> ELSE filename

\* a variant whose file name counts the calls made before
getCachePathNumbered(specifier, code, im) ==
    LET hashHex == getCacheHashHex(specifier, code, im)
    IN  SubSeq(hashHex, 1, 2) \o <<"/">> \o SubSeq(hashHex, 3, 4) \o <<"/">>
        \o hashHex \o <<"-">> \o Basename(specifier)
        \o (IF Len(hResult) > 0 THEN <<"1">> ELSE <<>>)

\* getCachePath: join(hashHex.slice(0, 2), hashHex.slice(2, 4),
\* `${hashHex}-${filename}`)
getCachePath(specifier, code, im) ==
    LET hashHex == getCacheHashHex(specifier, code, im)
    IN  SubSeq(hashHex, 1, 2) \o <<"/">> \o SubSeq(hashHex, 3, 4) \o <<"/">>
        \o hashHex \o <<"-">> \o Basename(specifier)

\* #getCacheUrl: new URL(`file://${join(#cacheDir, cachePath)}`).href
getCacheUrl(urlString, code) ==
    CacheRoot \o getCachePath(urlString, code, importMap)

IsCacheUrl(url) == StartsWith(url, CacheRoot)

(***************************************************************************)
(* replaceImports (collectReplacements, findMissingImports,                *)
(* applyReplacements): the two passes of #transformModule                  *)
(***************************************************************************)
\* the dependencies of the graph: the distinct specifiers, in source order
RECURSIVE Dedup(_)
Dedup(seq) ==
    IF seq = <<>> THEN <<>>
    ELSE LET front == Dedup(SubSeq(seq, 1, Len(seq) - 1))
             x == seq[Len(seq)]
         IN  IF \E i \in 1..Len(front) : front[i] = x THEN front
             ELSE Append(front, x)

\* collectReplacements skips a dependency without calling the replacer
SkippedByReplaceImports(specifier) == isRemoteSpecifier(specifier)

\* the specifiers the replacer is called with, in call order
RECURSIVE ReplacerCalls(_)
ReplacerCalls(deps) ==
    IF deps = <<>> THEN <<>>
    ELSE IF SkippedByReplaceImports(Head(deps)) THEN ReplacerCalls(Tail(deps))
    ELSE <<Head(deps)>> \o ReplacerCalls(Tail(deps))

\* the replacer of the first pass: applyImportMapToSpecifier of the module
FirstReplacer(urlString, specifier) ==
    applyImportMapToSpecifier(importMap.imports, importMap.scopes,
                              urlString, specifier)

\* originalToTransformedSpecifiers after the first pass, in insertion order
OriginalToTransformed(urlString, code) ==
    LET calls == ReplacerCalls(Dedup(code.imports))
    IN  [i \in 1..Len(calls) |->
            <<calls[i], FirstReplacer(urlString, calls[i])>>]

\* first pass: every occurrence of a dependency the replacer changed is
\* rewritten to `"${newSpecifier}"`
FirstPass(urlString, code) ==
    Code(code.banner,
         [i \in 1..Len(code.imports) |->
            IF SkippedByReplaceImports(code.imports[i]) THEN code.imports[i]
            ELSE FirstReplacer(urlString, code.imports[i])],
         code.body)

\* (specifier) => transformedToCachedUrls.get(specifier) || specifier
SecondReplacer(t2c, specifier) ==
    IF specifier \in DOMAIN t2c /\ t2c[specifier] # <<>>
    THEN t2c[specifier] ELSE specifier

\* second pass: transformedToCachedUrls.size > 0 ? replaceImports(...) : code
SecondPass(t2c, code) ==
    IF DOMAIN t2c = {} THEN code
    ELSE Code(code.banner,
              [i \in 1..Len(code.imports) |->
                 IF SkippedByReplaceImports(code.imports[i])
                 THEN code.imports[i]
                 ELSE SecondReplacer(t2c, code.imports[i])],
              code.body)

(***************************************************************************)
(* #processDependenciesParallel / #processDependency                       *)
(***************************************************************************)
\* shouldProcess
shouldProcess(transformedSpecifier) ==
    isRelativeOrFileUrl(transformedSpecifier) \/ isHttpUrl(transformedSpecifier)

\* the URL #processDependency hands to #transformModule
DependencyUrl(specifier, baseUrl) ==
    IF isRelativeOrFileUrl(specifier) THEN NewURL(specifier, baseUrl)
    ELSE specifier

\* the transformed specifiers for which a #processDependency call is made
RECURSIVE ProcessedSpecifiers(_)
ProcessedSpecifiers(o2t) ==
    IF o2t = <<>> THEN <<>>
    ELSE IF shouldProcess(Head(o2t)[2])
    THEN <<Head(o2t)[2]>> \o ProcessedSpecifiers(Tail(o2t))
    ELSE ProcessedSpecifiers(Tail(o2t))

\* the sources a module may turn out to have: at most MaxImports distinct
\* import clauses, written in the order of SpecifierOrder, every processed
\* dependency a module of the universe
SpecifierOrder == <<RelB, Lib, UrlA, UrlR>>

\* the subsequence of SpecifierOrder from position i on whose positions are
\* in picked
RECURSIVE Subsequence(_, _)
Subsequence(i, picked) ==
    IF i > Len(SpecifierOrder) THEN <<>>
    ELSE IF i \in picked
    THEN <<SpecifierOrder[i]>> \o Subsequence(i + 1, picked)
    ELSE Subsequence(i + 1, picked)

SpecifierSeqs(n) ==
    { Subsequence(1, picked) :
        picked \in { P \in SUBSET (1..Len(SpecifierOrder)) :
                        Cardinality(P) <= n } }

Readable(urlString, code) ==
    LET ps == ProcessedSpecifiers(OriginalToTransformed(urlString, code))
    IN  \A i \in 1..Len(ps) : DependencyUrl(ps[i], urlString) \in Urls

Sources(urlString) ==
    { c \in { Code(<<>>, q, b) : q \in SpecifierSeqs(MaxImports),
                                  b \in bodies } :
        Readable(urlString, c) }

(***************************************************************************)
(* Maps with a growing key set (Map.prototype.set)                         *)
(***************************************************************************)
MapSet(m, k, v) == (k :> v) @@ m

EmptyMap == [x \in {} |-> <<>>]

(***************************************************************************)
(* #transformModule up to its first suspension: what a call for urlString  *)
(* meets.  seen-started holds the URLs whose transformation the same       *)
(* synchronous loop has already started.                                   *)
(***************************************************************************)
\* if (this.#transformedModules.has(urlString)) return the memoized URL
IsMemoized(tm, urlString) == urlString \in DOMAIN tm

\* a variant without the in-progress check
IsProcessingNever(proc, urlString) == FALSE

\* if (this.#processingModules.has(urlString))
IsProcessing(proc, urlString) == urlString \in proc

(***************************************************************************)
(* The host's own cache and options.clearDenoCache                         *)
(***************************************************************************)
\* getDenoCacheFilePath(url) and getDenoCacheMetadataPath(url): the two files
\* the host keeps for a module URL are named by the URL
DenoCacheFile(url) == <<"artifact", url>>

DenoCacheMetadata(url) == <<"metadata", url>>

\* #clearDenoCacheForUrl: await Deno.stat(cachedPath); then remove
\* cachedPath and the metadata file; a failing stat ends the method
clearDenoCacheForUrl(dc, url) ==
    IF DenoCacheFile(url) \in dc
    THEN dc \ {DenoCacheFile(url), DenoCacheMetadata(url)}
    ELSE dc

\* moduleUrl.protocol === "file:"
IsFileUrl(url) == StartsWith(url, <<"file:", "/", "/">>)

\* a variant of #transformModule that clears for a URL of any protocol
ClearForModuleAny(dc, moduleUrl) == clearDenoCacheForUrl(dc, moduleUrl)

\* #transformModule: if (this.#clearDenoCache && moduleUrl.protocol ===
\* "file:") await this.#clearDenoCacheForUrl(moduleUrl)
ClearForModule(dc, moduleUrl) ==
    IF IsFileUrl(moduleUrl) THEN clearDenoCacheForUrl(dc, moduleUrl) ELSE dc

\* the #transformModule calls of the loop of #processDependenciesParallel
RECURSIVE ClearForDependencies(_, _, _)
ClearForDependencies(dc, ps, baseUrl) ==
    IF ps = <<>> THEN dc
    ELSE ClearForDependencies(
            ClearForModule(dc, DependencyUrl(Head(ps), baseUrl)),
            Tail(ps), baseUrl)

\* what the host's cache may hold when the instance is constructed
DenoCaches ==
    { {},
      {DenoCacheFile(u) : u \in Urls} \cup {DenoCacheMetadata(u) : u \in Urls},
      {DenoCacheMetadata(u) : u \in Urls} }

\* a variant that makes the in-progress check before the memo check
RequestKindJoinFirst(tm, proc, prom, urlString) ==
    IF IsProcessing(proc, urlString)
    THEN (IF urlString \in prom THEN "join" ELSE "raw")
    ELSE IF IsMemoized(tm, urlString) THEN "memo"
    ELSE "start"

\* a variant without the test of #transformedModules
RequestKindNoMemo(tm, proc, prom, urlString) ==
    IF IsProcessing(proc, urlString)
    THEN (IF urlString \in prom THEN "join" ELSE "raw")
    ELSE "start"

\* a variant that never waits for a transformation in progress: it returns
\* urlString
RequestKindNoWait(tm, proc, prom, urlString) ==
    IF IsMemoized(tm, urlString) THEN "memo"
    ELSE IF IsProcessing(proc, urlString) THEN "raw"
    ELSE "start"

\* "memo": the memoized cache URL is returned; "join": the existing promise
\* is returned; "raw": urlString itself is returned; "start": a new
\* transformation promise is created
RequestKind(tm, proc, prom, urlString) ==
    IF IsMemoized(tm, urlString) THEN "memo"
    ELSE IF IsProcessing(proc, urlString)
    THEN (IF urlString \in prom THEN "join" ELSE "raw")
    ELSE "start"

\* a variant of the loop that awaits each dependency before it calls
\* #transformModule for the next one
RECURSIVE IssueDependenciesOneByOne(_, _, _, _)
IssueDependenciesOneByOne(ps, baseUrl, tm, acc) ==
    IF ps = <<>> \/ acc.pending # {} THEN acc
    ELSE LET t == Head(ps)
             u == DependencyUrl(t, baseUrl)
             kind == RequestKind(tm,
                                 processingModules \cup acc.started,
                                 transformationPromises \cup acc.started, u)
             next ==
                CASE kind = "memo" ->
                        [acc EXCEPT !.t2c = MapSet(@, t, tm[u])]
                  [] kind = "raw" ->
                        [acc EXCEPT !.t2c = MapSet(@, t, u)]
                  [] kind = "join" ->
                        [acc EXCEPT !.pending = @ \cup {[spec |-> t, on |-> u]}]
                  [] kind = "start" ->
                        [acc EXCEPT !.pending = @ \cup {[spec |-> t, on |-> u]},
                                    !.started = @ \cup {u}]
         IN  IssueDependenciesOneByOne(Tail(ps), baseUrl, tm, next)

\* The synchronous loop of #processDependenciesParallel over the processed
\* specifiers ps of the module at baseUrl; tm is #transformedModules.  acc.started: transformations
\* started by the loop; acc.pending: dependency promises awaiting the
\* transformation promise of a URL; acc.t2c: entries whose value is already
\* determined at call time.
RECURSIVE IssueDependencies(_, _, _, _)
IssueDependencies(ps, baseUrl, tm, acc) ==
    IF ps = <<>> THEN acc
    ELSE LET t == Head(ps)
             u == DependencyUrl(t, baseUrl)
             kind == RequestKind(tm,
                                 processingModules \cup acc.started,
                                 transformationPromises \cup acc.started, u)
             next ==
                CASE kind = "memo" ->
                        [acc EXCEPT !.t2c = MapSet(@, t, tm[u])]
                  [] kind = "raw" ->
                        [acc EXCEPT !.t2c = MapSet(@, t, u)]
                  [] kind = "join" ->
                        [acc EXCEPT !.pending = @ \cup {[spec |-> t, on |-> u]}]
                  [] kind = "start" ->
                        [acc EXCEPT !.pending = @ \cup {[spec |-> t, on |-> u]},
                                    !.started = @ \cup {u}]
         IN  IssueDependencies(Tail(ps), baseUrl, tm, next)

\* The settling of the transformation promise of urlString with value val:
\* every `.then` callback waiting on it stores val under its specifier, and
\* every import() call awaiting it continues with val.
SettledPending(pend, urlString) == {d \in pend : d.on = urlString}

RECURSIVE StoreAll(_, _, _)
StoreAll(t2c, ds, val) ==
    IF ds = {} THEN t2c
    ELSE LET d == CHOOSE x \in ds : TRUE
         IN  StoreAll(MapSet(t2c, d.spec, val), ds \ {d}, val)

(***************************************************************************)
(* The host runtime's import(url)                                          *)
(***************************************************************************)
\* the cache URLs a cache artifact imports
CacheImports(code) ==
    {code.imports[i] : i \in {k \in 1..Len(code.imports) :
                                IsCacheUrl(code.imports[k])}}

\* the cache URLs the host has to read to load url: url and, transitively,
\* the cache URLs imported by the artifacts that exist
RECURSIVE HostClosure(_, _)
HostClosure(todo, seen) ==
    IF todo = {} THEN seen
    ELSE LET x == CHOOSE y \in todo : TRUE
             more == IF x \in DOMAIN disk THEN CacheImports(disk[x]) ELSE {}
         IN  HostClosure((todo \cup more) \ (seen \cup {x}), seen \cup {x})

\* the host can load url: every cache artifact it has to read exists (what is
\* not a cache URL is the host's own business and taken to load)
HostCanLoad(url) ==
    \/ url \in hostLoaded
    \/ \A x \in HostClosure({url}, {}) :
         IF IsCacheUrl(x) THEN x \in DOMAIN disk ELSE <<"read", x>> \notin faults

(***************************************************************************)
(* The instances of the class.  The program constructs them with the same  *)
(* import map and cache directory and uses one of them at a time.          *)
(***************************************************************************)
Instances == 1..MaxInstances

\* the field initializers: #cache = new Map(), #transformedModules = new
\* Map(), #processingModules = new Set(), #transformationPromises = new Map()
NewFields ==
    [cache |-> EmptyMap, transformedModules |-> EmptyMap,
     processingModules |-> {}, transformationPromises |-> {}]

\* the fields of the instance in use
ThisFields ==
    [cache |-> cache, transformedModules |-> transformedModules,
     processingModules |-> processingModules,
     transformationPromises |-> transformationPromises]

\* a variant in which the four fields are static members of the class
FieldsOfShared(j) == ThisFields

\* this.#cache, this.#transformedModules, this.#processingModules and
\* this.#transformationPromises where `this` is instance j
FieldsOf(j) == inst.fields[j]

(***************************************************************************)
(* Initial state: fresh instances over an empty cache directory            *)
(***************************************************************************)
Calls == 1..MaxCalls

\* the import() calls made so far
CallsMade == {c \in Calls : ipc[c] # "idle"}

\* the constructor with options.clearDenoCache = clear
InitInstance(clear) ==
    /\ importMap \in ImportMaps
    /\ clearDenoCache = clear
    /\ denoCache \in (IF clear THEN DenoCaches ELSE { {} })
    /\ inst = [self |-> 1, fields |-> [j \in Instances |-> NewFields],
               called |-> {}, since |-> 0, edits |-> 0]
    /\ resolved = {}
    /\ rejections = {}
    /\ source = [u \in Urls |-> NoCode]
    /\ known = {}
    /\ disk = EmptyMap
    /\ hostLoaded = {}
    /\ cache = EmptyMap
    /\ transformedModules = EmptyMap
    /\ processingModules = {}
    /\ transformationPromises = {}
    /\ tpc = [u \in Urls |-> "idle"]
    /\ tcode = [u \in Urls |-> NoCode]
    /\ tcacheUrl = [u \in Urls |-> NoUrl]
    /\ tpending = [u \in Urls |-> {}]
    /\ tt2c = [u \in Urls |-> EmptyMap]
    /\ ipc = [c \in Calls |-> "idle"]
    /\ ispec = [c \in Calls |-> NoUrl]
    /\ iwait = [c \in Calls |-> NoUrl]
    /\ iurl = [c \in Calls |-> NoUrl]
    /\ iresult = [c \in Calls |-> NoUrl]
    /\ reads = [u \in Urls |-> 0]
    /\ writes = 0
    /\ loads = 0

\* this.#clearDenoCache = options.clearDenoCache ?? false
InitEngine == InitInstance(FALSE)

(***************************************************************************)
(* import(specifier)                                                       *)
(***************************************************************************)
\* a variant without the memory cache of modules
CacheHitNever(specifier) == FALSE

\* if (this.#cache.has(specifier))
CacheHit(specifier) == specifier \in DOMAIN cache

\* calls are numbered in the order in which they are made
MayCall(c) == ipc[c] = "idle" /\ \A d \in Calls : d < c => ipc[d] # "idle"

Settled(c) == ipc[c] \in {"idle", "done", "failed"}

\* import(): the memory cache holds the specifier
ImportCached(c, s) ==
    /\ MayCall(c)
    /\ CacheHit(s)
    /\ ipc' = [ipc EXCEPT ![c] = "done"]
    /\ ispec' = [ispec EXCEPT ![c] = s]
    /\ iresult' = [iresult EXCEPT ![c] = cache[s]]
    /\ UNCHANGED <<iwait, iurl>>
    /\ UNCHANGED <<envvars, fieldvars, taskvars, countvars, histvars, purevars>>

\* import(): new URL(specifier, import.meta.url), then #transformModule(url)
\* up to its first suspension
ImportTransform(c, s) ==
    /\ MayCall(c)
    /\ ~CacheHit(s)
    /\ LET url == NewURL(s, ImporterUrl)
           kind == RequestKind(transformedModules, processingModules,
                               transformationPromises, url)
       IN  /\ ispec' = [ispec EXCEPT ![c] = s]
           /\ ipc' = [ipc EXCEPT ![c] =
                        IF kind \in {"memo", "raw"} THEN "loading"
                        ELSE "awaiting"]
           /\ iurl' = [iurl EXCEPT ![c] =
                        IF kind = "memo" THEN transformedModules[url]
                        ELSE IF kind = "raw" THEN url ELSE NoUrl]
           /\ iwait' = [iwait EXCEPT ![c] =
                        IF kind \in {"join", "start"} THEN url ELSE NoUrl]
           /\ IF kind = "start"
              THEN /\ processingModules' = processingModules \cup {url}
                   /\ transformationPromises' =
                        transformationPromises \cup {url}
                   /\ tpc' = [tpc EXCEPT ![url] = "reading"]
              ELSE UNCHANGED <<processingModules, transformationPromises, tpc>>
           /\ denoCache' = IF clearDenoCache
                           THEN ClearForModule(clearDenoCacheForUrl(denoCache, url),
                                               url)
                           ELSE denoCache
    /\ UNCHANGED <<iresult, cache, transformedModules>>
    /\ UNCHANGED <<tcode, tcacheUrl, tpending, tt2c>>
    /\ UNCHANGED <<givens, source, known, disk, hostLoaded>>
    /\ UNCHANGED <<countvars, histvars, purevars>>

\* const module = await import(transformedUrl); this.#cache.set(specifier, module)
\* The module object of a URL is the entry of the host's registry for it.
ImportLoad(c) ==
    /\ ipc[c] = "loading"
    /\ loads' = loads + 1
    /\ IF HostCanLoad(iurl[c])
       THEN /\ hostLoaded' = hostLoaded \cup HostClosure({iurl[c]}, {})
            /\ cache' = MapSet(cache, ispec[c], iurl[c])
            /\ ipc' = [ipc EXCEPT ![c] = "done"]
            /\ iresult' = [iresult EXCEPT ![c] = iurl[c]]
       ELSE /\ ipc' = [ipc EXCEPT ![c] = "failed"]
            /\ UNCHANGED <<hostLoaded, cache, iresult>>
    /\ UNCHANGED <<ispec, iwait, iurl>>
    /\ UNCHANGED <<givens, source, known, disk, denoCache>>
    /\ UNCHANGED <<transformedModules, processingModules,
                   transformationPromises>>
    /\ UNCHANGED <<taskvars, reads, writes, histvars, purevars>>

\* a variant in which the entries are not removed
FinallyKeeps(set, urlString) == set

\* the finally block of the transformation promise:
\* #processingModules.delete(urlString), #transformationPromises.delete(urlString)
FinallyDelete(set, urlString) == set \ {urlString}

(***************************************************************************)
(* The body of the transformation promise of one module URL                *)
(***************************************************************************)
\* finally { #processingModules.delete; #transformationPromises.delete },
\* and the promise settles with val
Finish(u, val) ==
    /\ processingModules' = FinallyDelete(processingModules, u)
    /\ transformationPromises' = FinallyDelete(transformationPromises, u)
    /\ tpc' = [tpc EXCEPT ![u] = "idle"]
    /\ tcode' = [tcode EXCEPT ![u] = NoCode]
    /\ tcacheUrl' = [tcacheUrl EXCEPT ![u] = NoUrl]
    /\ tpending' = [w \in Urls |->
                      IF w = u THEN {}
                      ELSE tpending[w] \ SettledPending(tpending[w], u)]
    /\ tt2c' = [w \in Urls |->
                  IF w = u THEN EmptyMap
                  ELSE StoreAll(tt2c[w], SettledPending(tpending[w], u), val)]
    /\ ipc' = [c \in Calls |->
                 IF ipc[c] = "awaiting" /\ iwait[c] = u THEN "loading"
                 ELSE ipc[c]]
    /\ iurl' = [c \in Calls |->
                  IF ipc[c] = "awaiting" /\ iwait[c] = u THEN val
                  ELSE iurl[c]]
    /\ iwait' = [c \in Calls |->
                   IF ipc[c] = "awaiting" /\ iwait[c] = u THEN NoUrl
                   ELSE iwait[c]]

\* the `.catch` callbacks waiting on the promise of urlString store the
\* resolved URL of their specifier: new URL(specifier, moduleUrl).href for a
\* relative or file: specifier, the specifier itself otherwise
RECURSIVE StoreResolved(_, _, _)
StoreResolved(t2c, ds, moduleUrl) ==
    IF ds = {} THEN t2c
    ELSE LET d == CHOOSE x \in ds : TRUE
         IN  StoreResolved(MapSet(t2c, d.spec, DependencyUrl(d.spec, moduleUrl)),
                           ds \ {d}, moduleUrl)

\* the import() calls that have been made and have not returned or thrown
BeingServed == {c \in Calls : ipc[c] \in {"awaiting", "loading"}}

\* finally { #processingModules.delete; #transformationPromises.delete },
\* and the promise rejects: the `.catch` callbacks waiting on it run, and
\* every import() call awaiting it throws
Reject(u, operation) ==
    /\ processingModules' = FinallyDelete(processingModules, u)
    /\ transformationPromises' = FinallyDelete(transformationPromises, u)
    /\ tpc' = [tpc EXCEPT ![u] = "idle"]
    /\ tcode' = [tcode EXCEPT ![u] = NoCode]
    /\ tcacheUrl' = [tcacheUrl EXCEPT ![u] = NoUrl]
    /\ tpending' = [w \in Urls |->
                      IF w = u THEN {}
                      ELSE tpending[w] \ SettledPending(tpending[w], u)]
    /\ tt2c' = [w \in Urls |->
                  IF w = u THEN EmptyMap
                  ELSE StoreResolved(tt2c[w], SettledPending(tpending[w], u), w)]
    /\ ipc' = [c \in Calls |->
                 IF ipc[c] = "awaiting" /\ iwait[c] = u THEN "failed"
                 ELSE ipc[c]]
    /\ iwait' = [c \in Calls |->
                   IF ipc[c] = "awaiting" /\ iwait[c] = u THEN NoUrl
                   ELSE iwait[c]]
    /\ UNCHANGED iurl
    /\ rejections' = rejections \cup
            {[url |-> u, operation |-> operation,
              caught |-> UNION {{<<w, d.spec>> :
                                    d \in SettledPending(tpending[w], u)} :
                                w \in Urls \ {u}},
              calls |-> BeingServed]}

\* a variant in which every read succeeds
ReadFailsNever(u) == FALSE

\* Deno.readTextFile throws, or the response of fetch is not ok
ReadFails(u) == <<"read", u>> \in faults

\* ensureDir or Deno.writeTextFile throws
WriteFails(u) == <<"write", u>> \in faults

\* the first replaceImports(...) call of #transformModule rejects: deno_graph
\* cannot be initialized or createGraph fails
RewriteFails(u) == <<"rewrite", u>> \in faults

\* const originalCode = await this.#readModuleContent(moduleUrl), and the
\* fast-path test.  The source of a module is fixed by its first read.
ReadModuleContent(u) ==
    /\ tpc[u] = "reading"
    /\ reads' = [reads EXCEPT ![u] = @ + 1]
    /\ IF ReadFails(u)
       THEN /\ Reject(u, "read")
            /\ UNCHANGED <<source, known>>
       ELSE /\ \E src \in (IF u \in known THEN {source[u]} ELSE Sources(u)) :
                 /\ source' = [source EXCEPT ![u] = src]
                 /\ known' = known \cup {u}
                 /\ tcode' = [tcode EXCEPT ![u] = src]
                 /\ IF ~hasImports(src) /\ ~hasImportMetaUrl(src.body)
                    THEN /\ tpc' = [tpc EXCEPT ![u] = "caching"]
                         /\ tcacheUrl' = [tcacheUrl EXCEPT ![u] =
                                getCacheUrl(u, CacheModuleCode(u, src))]
                    ELSE /\ tpc' = [tpc EXCEPT ![u] = "replacing"]
                         /\ UNCHANGED tcacheUrl
            /\ UNCHANGED <<processingModules, transformationPromises,
                           tpending, tt2c, ipc, iwait, iurl, rejections>>
    /\ UNCHANGED <<givens, disk, hostLoaded, denoCache, cache,
                   transformedModules,
                   ispec, iresult, writes, loads, resolved, purevars>>

\* #cacheModule: await #writeToCache(cacheUrl, finalCode), then
\* #transformedModules.set(urlString, cacheUrl); return cacheUrl
CacheModule(u) ==
    /\ tpc[u] = "caching"
    /\ IF WriteFails(u)
       THEN /\ Reject(u, "write")
            /\ UNCHANGED <<disk, writes, transformedModules>>
       ELSE /\ disk' = MapSet(disk, tcacheUrl[u],
                              CacheModuleCode(u, tcode[u]))
            /\ writes' = writes + 1
            /\ transformedModules' =
                    MapSet(transformedModules, u, tcacheUrl[u])
            /\ Finish(u, tcacheUrl[u])
            /\ UNCHANGED rejections
    /\ UNCHANGED <<givens, source, known, hostLoaded, denoCache, cache, ispec,
                   iresult, reads, loads, resolved, purevars>>

\* the first pass has returned: register the cache URL early, then
\* #processDependenciesParallel up to `await Promise.all(promises)`
RegisterAndProcess(u) ==
    /\ tpc[u] = "replacing"
    /\ IF RewriteFails(u)
       THEN /\ Reject(u, "rewrite")
            /\ UNCHANGED <<transformedModules, resolved, denoCache>>
       ELSE /\ \E transformedCode \in {MetaReplaced(u, FirstPass(u, tcode[u]))} :
               \E cacheUrl \in {getCacheUrl(u, transformedCode)} :
               LET o2t == OriginalToTransformed(u, tcode[u])
                   tm == MapSet(transformedModules, u, cacheUrl)
                   acc == IssueDependencies(ProcessedSpecifiers(o2t), u, tm,
                            [started |-> {}, pending |-> {}, t2c |-> EmptyMap])
               IN  /\ transformedModules' = tm
                   /\ tcode' = [tcode EXCEPT ![u] = transformedCode]
                   /\ tcacheUrl' = [tcacheUrl EXCEPT ![u] = cacheUrl]
                   /\ processingModules' = processingModules \cup acc.started
                   /\ transformationPromises' =
                        transformationPromises \cup acc.started
                   /\ tpc' = [w \in Urls |->
                                IF w = u THEN "awaitingDeps"
                                ELSE IF w \in acc.started THEN "reading"
                                ELSE tpc[w]]
                   /\ tpending' = [tpending EXCEPT ![u] = acc.pending]
                   /\ tt2c' = [tt2c EXCEPT ![u] = acc.t2c]
                   /\ resolved' = IF Len(o2t) > 0 THEN resolved \cup {u} ELSE resolved
                   /\ denoCache' = IF clearDenoCache
                                   THEN ClearForDependencies(denoCache,
                                            ProcessedSpecifiers(o2t), u)
                                   ELSE denoCache
            /\ UNCHANGED <<ipc, iwait, iurl, rejections>>
    /\ UNCHANGED <<givens, source, known, disk, hostLoaded>>
    /\ UNCHANGED <<cache, ispec, iresult, countvars, purevars>>

\* Promise.all has resolved: the second pass, the banner,
\* await this.#writeToCache(cacheUrl, codeWithBanner); return cacheUrl
FinalCode(u) == WithBanner(u, SecondPass(tt2c[u], tcode[u]))

\* a variant that does not wait for the dependency promises
AllSettledAtOnce(u) == TRUE

\* await Promise.all(promises) has resolved: every dependency promise of the
\* module has run its `.then` or its `.catch` callback
AllSettled(u) == tpending[u] = {}

\* a variant that computes the cache URL again, from the code of the second
\* pass
WriteUrlRecomputed(u) == getCacheUrl(u, SecondPass(tt2c[u], tcode[u]))

\* the cache URL the final code is written at and the promise is resolved
\* with: the constant cacheUrl computed before the dependencies are processed
WriteUrl(u) == tcacheUrl[u]

WriteToCache(u) ==
    /\ tpc[u] = "awaitingDeps"
    /\ AllSettled(u)
    /\ IF WriteFails(u)
       THEN /\ Reject(u, "write")
            /\ UNCHANGED <<disk, writes>>
       ELSE /\ disk' = MapSet(disk, WriteUrl(u), FinalCode(u))
            /\ writes' = writes + 1
            /\ Finish(u, WriteUrl(u))
            /\ UNCHANGED rejections
    /\ UNCHANGED <<givens, source, known, hostLoaded, denoCache, cache,
                   transformedModules, ispec, iresult, reads, loads,
                   resolved, purevars>>

(***************************************************************************)
(* Specifications                                                          *)
(***************************************************************************)
ResolverUnused ==
    /\ rImports = <<>>
    /\ rScopes = <<>>
    /\ rUrl = <<>>
    /\ rSpecifier = <<>>
    /\ rResult = <<>>
    /\ rDone = FALSE

MetaUnused ==
    /\ mText = <<>>
    /\ mUrl = <<>>
    /\ mResult = <<>>
    /\ mDone = FALSE

HashUnused ==
    /\ hArgs = <<>>
    /\ hResult = <<>>

LoaderUnused ==
    /\ lMap = <<>>
    /\ lPath = <<>>
    /\ lResult = <<>>
    /\ lDone = FALSE

FinderUnused ==
    /\ fSegments = <<>>
    /\ fReplacements = <<>>
    /\ fExisting = {}
    /\ fResult = <<>>
    /\ fDone = FALSE

GraphUnused ==
    /\ denoGraphInitialized = FALSE
    /\ initializationPromise = "null"
    /\ inits = 0
    /\ gpc = <<>>

\* every read and every write succeeds
NoFaults == faults = {}

\* module sources are import clauses only
PlainBodies == bodies = { <<>> }

Init ==
    /\ InitEngine
    /\ NoFaults
    /\ PlainBodies
    /\ ResolverUnused
    /\ MetaUnused
    /\ HashUnused
    /\ LoaderUnused
    /\ FinderUnused
    /\ GraphUnused

TaskStep(u) ==
    \/ ReadModuleContent(u)
    \/ CacheModule(u)
    \/ RegisterAndProcess(u)
    \/ WriteToCache(u)

Tasks == \E u \in Urls : TaskStep(u)

Loads == \E c \in Calls : ImportLoad(c)

Progress == Tasks \/ Loads

\* import() calls may overlap
Next ==
    \/ \E c \in Calls, s \in RootSpecifiers : ImportCached(c, s)
    \/ \E c \in Calls, s \in RootSpecifiers : ImportTransform(c, s)
    \/ Progress

Spec == Init /\ [][Next]_vars

\* one import() call at a time: a call is made when the earlier ones settled
NextSeq ==
    \/ \E c \in Calls, s \in RootSpecifiers :
         (\A d \in Calls : Settled(d)) /\ ImportCached(c, s)
    \/ \E c \in Calls, s \in RootSpecifiers :
         (\A d \in Calls : Settled(d)) /\ ImportTransform(c, s)
    \/ Progress

\* ENABLED <<Tasks>>_vars written out: the body of some transformation
\* promise is at a suspension point it can leave
TasksEnabled ==
    \E u \in Urls :
        \/ tpc[u] \in {"reading", "caching", "replacing"}
        \/ tpc[u] = "awaitingDeps" /\ tpending[u] = {}

\* weak fairness of Tasks, with its enabling condition written out
FairTasks == []<>(~TasksEnabled) \/ []<><<Tasks>>_vars

\* every suspended operation (a file read, a fetch, a cache write, a host
\* load, a promise continuation) is eventually resumed by the event loop
SpecSeq == Init /\ [][NextSeq]_vars /\ WF_vars(Loads) /\ FairTasks

\* the reads and writes that fail, fixed for the life of the instance
FaultSets ==
    { F \in SUBSET ({"read", "write"} \X Urls) : Cardinality(F) <= MaxFaults }

InitFail ==
    /\ InitEngine
    /\ faults \in FaultSets
    /\ PlainBodies
    /\ ResolverUnused
    /\ MetaUnused
    /\ HashUnused
    /\ LoaderUnused
    /\ FinderUnused
    /\ GraphUnused

\* one import() call at a time, over files and a network that may fail
SpecFail == InitFail /\ [][NextSeq]_vars /\ WF_vars(Loads) /\ FairTasks

\* the texts a module source may have behind its import clauses: a plain
\* statement, a reference to import.meta.url, and a line comment that
\* holds an import clause
MetaBodies ==
    { <<"1">>,
      <<"import", " ", ".", "\n", "meta", " ", ".", " ", "url">>,
      <<"/", "/", "import", " ", Quote, "x", Quote>> }

InitMeta ==
    /\ InitEngine
    /\ NoFaults
    /\ bodies = MetaBodies
    /\ ResolverUnused
    /\ MetaUnused
    /\ HashUnused
    /\ LoaderUnused
    /\ FinderUnused
    /\ GraphUnused

\* one import() call at a time, over modules that may refer to import.meta
SpecMeta == InitMeta /\ [][NextSeq]_vars

(***************************************************************************)
(* Two instances over one cache directory, and files that change           *)
(***************************************************************************)
\* nothing is in flight: every import() call made has returned or thrown,
\* and no transformation promise is pending
Quiescent ==
    /\ \A c \in Calls : Settled(c)
    /\ \A u \in Urls : tpc[u] = "idle"

\* the program turns to instance j: the private fields it works on from now
\* on are those of j
TurnTo(j) ==
    /\ j # inst.self
    /\ Quiescent
    /\ \E f \in {FieldsOf(j)} :
         /\ cache' = f.cache
         /\ transformedModules' = f.transformedModules
         /\ processingModules' = f.processingModules
         /\ transformationPromises' = f.transformationPromises
    /\ inst' = [self |-> j,
                fields |-> [inst.fields EXCEPT ![inst.self] = ThisFields],
                called |-> IF Cardinality(CallsMade) > inst.since
                           THEN inst.called \cup {inst.self}
                           ELSE inst.called,
                since |-> Cardinality(CallsMade),
                edits |-> inst.edits]
    /\ UNCHANGED <<importMap, faults, bodies, clearDenoCache, source, known,
                   disk, hostLoaded, denoCache>>
    /\ UNCHANGED <<taskvars, callvars, countvars, histvars, purevars>>

\* somebody edits the file (or the server changes the response) of module
\* u: its next read may return another text
EditSource(u) ==
    /\ Quiescent
    /\ u \in known
    /\ inst.edits < MaxEdits
    /\ inst' = [inst EXCEPT !.edits = @ + 1]
    /\ known' = known \ {u}
    /\ source' = [source EXCEPT ![u] = NoCode]
    /\ UNCHANGED <<importMap, faults, bodies, clearDenoCache, disk, hostLoaded,
                   denoCache>>
    /\ UNCHANGED <<fieldvars, taskvars, callvars, countvars, histvars, purevars>>

NextInstances ==
    \/ NextSeq
    \/ \E j \in Instances : TurnTo(j)

\* one import() call at a time, on any of the instances
SpecInstances == Init /\ [][NextInstances]_vars

EditMaps ==
    { [imports |-> <<>>, scopes |-> <<>>],
      [imports |-> << <<Lib, RelB>> >>, scopes |-> <<>>] }

InitEdit ==
    /\ Init
    /\ importMap \in EditMaps

NextEdit ==
    \/ NextInstances
    \/ \E u \in Urls : EditSource(u)

\* one import() call at a time, on any of the instances, over files that
\* may change between the calls
SpecEdit == InitEdit /\ [][NextEdit]_vars

(***************************************************************************)
(* The resolver on bounded inputs                                          *)
(***************************************************************************)
EngineUnused ==
    /\ InitEngine
    /\ importMap = [imports |-> <<>>, scopes |-> <<>>]
    /\ NoFaults
    /\ PlainBodies

InitResolve ==
    /\ rImports \in RImportEntries
    /\ rScopes \in RScopeEntries
    /\ rUrl \in RUrls
    /\ rSpecifier \in RSpecifiers
    /\ rResult = <<>>
    /\ rDone = FALSE
    /\ EngineUnused
    /\ MetaUnused
    /\ HashUnused
    /\ LoaderUnused
    /\ FinderUnused
    /\ GraphUnused

Resolve ==
    /\ ~rDone
    /\ rResult' = applyImportMapToSpecifier(rImports, rScopes, rUrl, rSpecifier)
    /\ rDone' = TRUE
    /\ UNCHANGED <<rImports, rScopes, rUrl, rSpecifier, mvars, hvars, lvars,
                   fvars, gvars,
                   evars>>

NextResolve == Resolve

SpecResolve == InitResolve /\ [][NextResolve]_vars

(***************************************************************************)
(* replaceImportMeta on bounded inputs                                     *)
(***************************************************************************)
\* a reference to a property of import.meta, written tightly or with white
\* space and newlines around the dots
MetaReferences(property) ==
    { <<"import", ".", "meta", ".", property>>,
      <<"import", " ", ".", "\n", "meta", " ", ".", " ", property>> }

\* argument expressions of import.meta.resolve: a string literal, an
\* identifier, an identifier within white space, a call
ResolveArguments ==
    { <<Quote, ".", "/", "x", Quote>>,
      <<"x">>,
      <<" ", "x", " ">>,
      <<"f", "(", Quote, "x", Quote, ")">> }

ResolveCall(argument) ==
    <<"import", ".", "meta", ".", "resolve", "(">> \o argument \o <<")">>

MetaFragments ==
    MetaReferences("url") \cup MetaReferences("filename")
    \cup MetaReferences("dirname")
    \cup { ResolveCall(a) : a \in ResolveArguments }
    \cup { <<"import", ".", "meta", ".", "main">>, <<"1">> }

MetaPrefixes == { <<>>, <<"y", "=">> }

MetaSuffixes == { <<>>, <<";", "import", ".", "meta", ".", "url">> }

MetaTexts ==
    { pre \o fragment \o post :
        pre \in MetaPrefixes, fragment \in MetaFragments, post \in MetaSuffixes }

UrlDA == FileRoot \o <<"d", "/", "a">>                  \* file:///d/a
UrlDollar == FileRoot \o <<"$", "&", "/", "a">>         \* file:///$&/a

MetaUrls == { UrlA, UrlDA, UrlR, UrlDollar }

InitReplaceMeta ==
    /\ mText \in MetaTexts
    /\ mUrl \in MetaUrls
    /\ mResult = <<>>
    /\ mDone = FALSE
    /\ EngineUnused
    /\ ResolverUnused
    /\ HashUnused
    /\ LoaderUnused
    /\ FinderUnused
    /\ GraphUnused

ReplaceMeta ==
    /\ ~mDone
    /\ mResult' = replaceImportMeta(mText, mUrl)
    /\ mDone' = TRUE
    /\ UNCHANGED <<mText, mUrl, rvars, hvars, lvars, fvars, gvars, evars>>

NextReplaceMeta == ReplaceMeta

SpecReplaceMeta == InitReplaceMeta /\ [][NextReplaceMeta]_vars

(***************************************************************************)
(* getCachePath on bounded inputs                                          *)
(***************************************************************************)
UrlQuery == <<"https:", "/", "/", "h", "/", "d", "/", "r", "?", "q">>
UrlDir == <<"https:", "/", "/", "h", "/", "d", "/">>    \* https://h/d/
UrlRoot == <<"https:", "/", "/", "h", "/">>             \* https://h/

HashSpecifiers == { UrlA, UrlQuery, UrlDir, UrlRoot }

HashCodes == { Code(<<>>, <<>>, <<"1">>), Code(<<>>, <<RelB>>, <<>>) }

HashMaps ==
    { [imports |-> <<>>, scopes |-> <<>>],
      [imports |-> << <<Lib, UrlR>> >>, scopes |-> <<>>],
      [imports |-> <<>>,
       scopes |-> << <<FileRoot, << <<Lib, UrlB>> >> >> >>] }

HashArguments == HashSpecifiers \X HashCodes \X HashMaps

InitCache ==
    /\ hArgs \in [1..MaxHashCalls -> HashArguments]
    /\ hResult = <<>>
    /\ EngineUnused
    /\ ResolverUnused
    /\ MetaUnused
    /\ LoaderUnused
    /\ FinderUnused
    /\ GraphUnused

CachePath ==
    /\ Len(hResult) < Len(hArgs)
    /\ LET arguments == hArgs[Len(hResult) + 1]
       IN  hResult' = Append(hResult, getCachePath(arguments[1], arguments[2],
                                                   arguments[3]))
    /\ UNCHANGED <<hArgs, rvars, mvars, lvars, fvars, gvars, evars>>

NextCache == CachePath

SpecCache == InitCache /\ [][NextCache]_vars

(***************************************************************************)
(* findMissingImports (find_missing_imports.ts).  A source text is a       *)
(* sequence of tokens, each standing for one character position: words,    *)
(* punctuation, the two quotes, the blank and the line feed.               *)
(***************************************************************************)
Quotes == {"'", "\""}

\* [\w$]+
IsWord(t) ==
    t \in {"import", "export", "type", "from", "const", "x", "y", "lib",
           "oth"}

TokenAt(text, p) == IF p \in 1..Len(text) THEN text[p] ELSE "<end>"

\* \s* from position p: the positions it can end at
Spaces0(text, p) ==
    {q \in p..(Len(text) + 1) : \A k \in p..(q - 1) : IsSpace(text[k])}

\* \s+
Spaces1(text, p) == Spaces0(text, p) \ {p}

\* one literal token
Lit(text, p, tok) == IF TokenAt(text, p) = tok THEN {p + 1} ELSE {}

\* (?:\{[^}]*\}|\*|[\w$]+)
Item(text, p) ==
    (IF TokenAt(text, p) = "{"
     THEN {q + 1 : q \in {r \in (p + 1)..Len(text) :
                            /\ text[r] = "}"
                            /\ \A k \in (p + 1)..(r - 1) : text[k] # "}"}}
     ELSE {})
    \cup Lit(text, p, "*")
    \cup (IF IsWord(TokenAt(text, p)) THEN {p + 1} ELSE {})

\* \s*,\s* followed by one more item
CommaItem(text, p) ==
    UNION {UNION {UNION {Item(text, q3) : q3 \in Spaces0(text, q2)} :
                     q2 \in Lit(text, q1, ",")} :
              q1 \in Spaces0(text, p)}

\* (?: ... )* applied to the positions ps
RECURSIVE CommaItems(_, _)
CommaItems(text, ps) ==
    LET more == UNION {CommaItem(text, p) : p \in ps}
    IN  IF more \subseteq ps THEN ps ELSE CommaItems(text, ps \cup more)

\* (['"])([^'"]+)\1 at position p: the position after the closing quote
Quoted(text, p) ==
    IF TokenAt(text, p) \in Quotes
    THEN {q + 1 : q \in {r \in (p + 2)..Len(text) :
                           /\ text[r] = text[p]
                           /\ \A k \in (p + 1)..(r - 1) : text[k] \notin Quotes}}
    ELSE {}

\* the positions of the opening quote the expression can reach from a match
\* that starts at position i
QuoteStarts(text, i) ==
    LET afterKeyword == Lit(text, i, "import") \cup Lit(text, i, "export")
        afterSpace == UNION {Spaces1(text, p) : p \in afterKeyword}
        afterType ==
            afterSpace \cup
            UNION {UNION {Spaces1(text, q) : q \in Lit(text, p, "type")} :
                      p \in afterSpace}
        afterItem == UNION {Item(text, p) : p \in afterType}
        afterItems == CommaItems(text, afterItem)
        afterFrom ==
            UNION {UNION {UNION {Spaces1(text, q2) : q2 \in Lit(text, q1, "from")} :
                             q1 \in Spaces1(text, p)} :
                      p \in afterItems}
    IN  {p \in afterFrom : Quoted(text, p) # {}}

\* createImportExportRegex() applied at position i: no match, or the match
\* with its end and its two groups.  The expression has one way at most to
\* match from a given position, up to the blanks it splits between \s*
\* and \s+.
NoMatch == [found |-> FALSE]

MatchAt(text, i) ==
    LET starts == QuoteStarts(text, i)
    IN  IF starts = {} THEN NoMatch
        ELSE LET p == CHOOSE q \in starts : \A r \in starts : q <= r
                 e == CHOOSE q \in Quoted(text, p) : TRUE
             IN  [found |-> TRUE,
                  index |-> i - 1,
                  fullMatch |-> SubSeq(text, i, e - 1),
                  quote |-> text[p],
                  specifier |-> SubSeq(text, p + 1, e - 2)]

\* String.prototype.lastIndexOf, -1 when there is no occurrence
LastIndexOf(s, t) ==
    LET at == {k \in 0..(Len(s) - Len(t)) : SubSeq(s, k + 1, k + Len(t)) = t}
    IN  IF at = {} THEN -1 ELSE CHOOSE k \in at : \A h \in at : h <= k

\* getLineOffsets: the offsets at which the lines start
getLineOffsets(sourceCode) ==
    {0} \cup {k \in 1..Len(sourceCode) : sourceCode[k] = "\n"}

\* absoluteToLineChar: the line is the last one that starts at or before
\* absoluteStart
absoluteToLineChar(absoluteStart, absoluteEnd, lineOffsets) ==
    LET before == {o \in lineOffsets : o <= absoluteStart}
        offset == CHOOSE o \in before : \A h \in before : h <= o
    IN  [startLine |-> Cardinality(before) - 1,
         startChar |-> absoluteStart - offset,
         endChar |-> absoluteEnd - offset]

ReplacementKey(r) == <<r.startLine, r.startChar, r.endChar>>

\* a variant of processMatch without the test of existingReplacementKeys
IsExistingNever(existingReplacementKeys, key) == FALSE

\* existingReplacementKeys.has(key)
IsExisting(existingReplacementKeys, key) == key \in existingReplacementKeys

\* specifierReplacements.get(specifier), <<>> for undefined
NewSpecifierOf(specifierReplacements, specifier) ==
    IF specifier \in DOMAIN specifierReplacements
    THEN specifierReplacements[specifier] ELSE <<>>

\* processMatch: the replacements of one match, none or one
processMatch(match, specifierReplacements, lineOffsets, existingReplacementKeys) ==
    LET newSpec == NewSpecifierOf(specifierReplacements, match.specifier)
        quotedSpecifier == <<match.quote>> \o match.specifier \o <<match.quote>>
        specifierIndex == LastIndexOf(match.fullMatch, quotedSpecifier)
        absoluteStart == match.index + specifierIndex
        absoluteEnd == absoluteStart + Len(quotedSpecifier)
        position == absoluteToLineChar(absoluteStart, absoluteEnd, lineOffsets)
    IN  IF newSpec = <<>> THEN <<>>
        ELSE IF specifierIndex = -1 THEN <<>>
        ELSE IF IsExisting(existingReplacementKeys,
                           <<position.startLine, position.startChar,
                             position.endChar>>)
        THEN <<>>
        ELSE << [startLine |-> position.startLine,
                 startChar |-> position.startChar,
                 endLine |-> position.startLine,
                 endChar |-> position.endChar,
                 specifier |-> match.specifier,
                 newSpecifier |-> newSpec] >>

\* the loop over importExportRegex.exec(sourceCode): the next match is the
\* leftmost one at or after lastIndex, and lastIndex moves to its end
RECURSIVE ExecLoop(_, _, _, _)
ExecLoop(sourceCode, i, specifierReplacements, existingReplacementKeys) ==
    IF i > Len(sourceCode) THEN <<>>
    ELSE LET match == MatchAt(sourceCode, i)
         IN  IF ~match.found
             THEN ExecLoop(sourceCode, i + 1, specifierReplacements,
                           existingReplacementKeys)
             ELSE processMatch(match, specifierReplacements,
                               getLineOffsets(sourceCode),
                               existingReplacementKeys)
                  \o ExecLoop(sourceCode, i + Len(match.fullMatch),
                              specifierReplacements, existingReplacementKeys)

findMissingImports(sourceCode, specifierReplacements, existingReplacements) ==
    IF DOMAIN specifierReplacements = {} THEN <<>>
    ELSE ExecLoop(sourceCode, 1, specifierReplacements,
                  {ReplacementKey(r) : r \in existingReplacements})

(***************************************************************************)
(* findMissingImports on bounded inputs: a source text written as a        *)
(* sequence of pieces, each of them an import or export clause, a dynamic  *)
(* import, a comment, a statement with a string or template literal, or    *)
(* other code.  The structural pass (deno graph) has produced replacements *)
(* for some of the specifiers of the clauses and dynamic imports.          *)
(***************************************************************************)
Piece(kind, text) == [kind |-> kind, text |-> text]

Pieces ==
    { Piece("clause", <<"import", " ", "{", "x", "}", " ", "from", " ",
                        "\"", "lib", "\"", ";", "\n">>),
      Piece("clause", <<"import", " ", "x", " ", "from", " ",
                        "'", "lib", "'", "\n">>),
      Piece("clause", <<"export", " ", "*", " ", "from", " ",
                        "\"", "lib", "\"", ";", " ">>),
      Piece("clause", <<"import", " ", "type", " ", "{", "x", "}", " ",
                        "from", " ", "\"", "lib", "\"", "\n">>),
      Piece("clause", <<"import", " ", "{", "\n", "x", ",", "y", "\n", "}",
                        " ", "from", " ", "\"", "lib", "\"", "\n">>),
      Piece("clause", <<"import", " ", "type", ",", " ", "{", "y", "}", " ",
                        "from", "\n", "\"", "oth", "\"", "\n">>),
      Piece("dynamic", <<"import", "(", "\"", "lib", "\"", ")", ";", "\n">>),
      Piece("comment", <<"//", " ", "\"", "lib", "\"", "\n">>),
      Piece("comment", <<"//", " ", "import", " ", "x", " ", "from", " ",
                         "\"", "lib", "\"", "\n">>),
      Piece("string", <<"const", " ", "x", "=", "\"", "lib", "\"", ";", "\n">>),
      Piece("string", <<"const", " ", "x", "=", "'", "import", " ", "x", " ",
                        "from", " ", "\"", "lib", "\"", "'", ";", "\n">>),
      Piece("template", <<"const", " ", "x", "=", "<backtick>", "import", " ", "x",
                          " ", "from", " ", "\"", "lib", "\"", "<backtick>", ";",
                          "\n">>),
      Piece("code", <<"x", ";">>) }

RECURSIVE PieceSeqs(_)
PieceSeqs(n) ==
    IF n = 0 THEN { <<>> }
    ELSE LET shorter == PieceSeqs(n - 1)
         IN  shorter \cup
             { Append(ps, p) : ps \in { s \in shorter : Len(s) = n - 1 },
                               p \in Pieces }

\* sourceCode: the pieces one after the other
RECURSIVE SourceCode(_)
SourceCode(segments) ==
    IF segments = <<>> THEN <<>>
    ELSE Head(segments).text \o SourceCode(Tail(segments))

\* the specifier literal of piece k of the source, a clause or a dynamic
\* import: where it is written and what it says
Literal(segments, k) ==
    LET text == segments[k].text
        quotes == {q \in 1..Len(text) : text[q] \in Quotes}
        open == CHOOSE q \in quotes : \A r \in quotes : q <= r
        close == CHOOSE q \in quotes : \A r \in quotes : r <= q
        pre == SourceCode(SubSeq(segments, 1, k - 1)) \o SubSeq(text, 1, open - 1)
        feeds == {n \in 1..Len(pre) : pre[n] = "\n"}
        lineStart == IF feeds = {} THEN 0
                     ELSE CHOOSE n \in feeds : \A m \in feeds : m <= n
    IN  [startLine |-> Cardinality(feeds),
         startChar |-> Len(pre) - lineStart,
         endChar |-> Len(pre) - lineStart + (close - open + 1),
         specifier |-> SubSeq(text, open + 1, close - 1)]

\* the replacements the structural pass may have produced: one for a
\* clause or dynamic import whose specifier the replacer changed
StructuralReplacements(segments, specifierReplacements) ==
    { [startLine |-> Literal(segments, k).startLine,
       startChar |-> Literal(segments, k).startChar,
       endLine |-> Literal(segments, k).startLine,
       endChar |-> Literal(segments, k).endChar,
       specifier |-> Literal(segments, k).specifier,
       newSpecifier |-> specifierReplacements[Literal(segments, k).specifier]] :
        k \in {n \in 1..Len(segments) :
                 /\ segments[n].kind \in {"clause", "dynamic"}
                 /\ Literal(segments, n).specifier
                        \in DOMAIN specifierReplacements} }

FSpecifierReplacements ==
    { EmptyMap,
      (<<"lib">> :> <<"new">>),
      (<<"oth">> :> <<"new">>),
      (<<"lib">> :> <<"new">>) @@ (<<"oth">> :> <<"lib">>) }

InitFindMissing ==
    /\ fSegments \in PieceSeqs(MaxPieces)
    /\ fReplacements \in FSpecifierReplacements
    /\ fExisting \in SUBSET StructuralReplacements(fSegments, fReplacements)
    /\ fResult = <<>>
    /\ fDone = FALSE
    /\ EngineUnused
    /\ ResolverUnused
    /\ MetaUnused
    /\ HashUnused
    /\ LoaderUnused
    /\ GraphUnused

FindMissing ==
    /\ ~fDone
    /\ fResult' = findMissingImports(SourceCode(fSegments), fReplacements,
                                     fExisting)
    /\ fDone' = TRUE
    /\ UNCHANGED <<fSegments, fReplacements, fExisting, rvars, mvars, hvars,
                   lvars, gvars, evars>>

NextFindMissing == FindMissing

SpecFindMissing == InitFindMissing /\ [][NextFindMissing]_vars

(***************************************************************************)
(* ensureDenoGraphInitialized (replace_imports.ts): the module-level       *)
(* initialization of the structural parser, under replaceImports calls     *)
(* that overlap in time                                                    *)
(***************************************************************************)
GraphCalls == 1..MaxGraphCalls

\* a variant without the test of initializationPromise
NeedsInitAlways == TRUE

\* if (!initializationPromise)
NeedsInit == initializationPromise = "null"

\* replaceImports calls ensureDenoGraphInitialized, which runs up to its
\* return or its await
EnsureInitialized(c) ==
    /\ gpc[c] = "idle"
    /\ IF denoGraphInitialized
       THEN /\ gpc' = [gpc EXCEPT ![c] = "initialized"]
            /\ UNCHANGED <<initializationPromise, inits>>
       ELSE /\ gpc' = [gpc EXCEPT ![c] = "awaiting"]
            /\ IF NeedsInit
               THEN /\ initializationPromise' = "pending"
                    /\ inits' = inits + 1
               ELSE UNCHANGED <<initializationPromise, inits>>
    /\ UNCHANGED <<denoGraphInitialized, rvars, mvars, hvars, lvars, fvars,
                   evars>>

\* init() resolves: the `.then` callback sets denoGraphInitialized and
\* initializationPromise is fulfilled
InitResolves ==
    /\ initializationPromise = "pending"
    /\ denoGraphInitialized' = TRUE
    /\ initializationPromise' = "fulfilled"
    /\ UNCHANGED <<inits, gpc, rvars, mvars, hvars, lvars, fvars, evars>>

\* init() rejects: the callback does not run and initializationPromise is
\* rejected
InitRejects ==
    /\ initializationPromise = "pending"
    /\ initializationPromise' = "rejected"
    /\ UNCHANGED <<denoGraphInitialized, inits, gpc, rvars, mvars, hvars,
                   lvars, fvars, evars>>

\* await initializationPromise has settled; replaceImports goes on to
\* createGraph, or throws
AfterAwait(c) ==
    /\ gpc[c] = "awaiting"
    /\ initializationPromise \in {"fulfilled", "rejected"}
    /\ gpc' = [gpc EXCEPT ![c] =
                 IF initializationPromise = "fulfilled" THEN "graph"
                 ELSE "failed"]
    /\ UNCHANGED <<denoGraphInitialized, initializationPromise, inits, rvars,
                   mvars, hvars, lvars, fvars, evars>>

\* ensureDenoGraphInitialized returned at once; replaceImports goes on to
\* createGraph
AfterReturn(c) ==
    /\ gpc[c] = "initialized"
    /\ gpc' = [gpc EXCEPT ![c] = "graph"]
    /\ UNCHANGED <<denoGraphInitialized, initializationPromise, inits, rvars,
                   mvars, hvars, lvars, fvars, evars>>

\* const graph = await createGraph(...), and the rest of replaceImports
CreateGraph(c) ==
    /\ gpc[c] = "graph"
    /\ gpc' = [gpc EXCEPT ![c] = "done"]
    /\ UNCHANGED <<denoGraphInitialized, initializationPromise, inits, rvars,
                   mvars, hvars, lvars, fvars, evars>>

InitGraph ==
    /\ denoGraphInitialized = FALSE
    /\ initializationPromise = "null"
    /\ inits = 0
    /\ gpc = [c \in GraphCalls |-> "idle"]
    /\ EngineUnused
    /\ ResolverUnused
    /\ MetaUnused
    /\ HashUnused
    /\ LoaderUnused
    /\ FinderUnused

NextGraph ==
    \/ \E c \in GraphCalls : EnsureInitialized(c)
    \/ InitResolves
    \/ InitRejects
    \/ \E c \in GraphCalls : AfterAwait(c)
    \/ \E c \in GraphCalls : AfterReturn(c)
    \/ \E c \in GraphCalls : CreateGraph(c)

SpecGraph == InitGraph /\ [][NextGraph]_vars

(***************************************************************************)
(* resolveImportMap (resolve_import_map.ts) with the POSIX functions of    *)
(* @std/path it calls.  An object is the list of its own enumerable        *)
(* properties, <<key, value>> pairs in insertion order.                    *)
(***************************************************************************)
\* Deno.cwd()
Cwd == <<"/", "p">>

\* isAbsolute(path)
isAbsolute(path) == Len(path) > 0 /\ path[1] = "/"

\* new URL(str) does not throw: str begins with a scheme
isUrl(str) ==
    Len(str) > 0 /\
    str[1] \in {"file:", "http:", "https:", "data:", "npm:", "jsr:"}

\* the segments of a path: what stands between its "/" separators
RECURSIVE SplitPath(_)
SplitPath(path) ==
    LET slashes == {i \in 1..Len(path) : path[i] = "/"}
    IN  IF slashes = {} THEN <<path>>
        ELSE <<SubSeq(path, 1, Min(slashes) - 1)>>
             \o SplitPath(Slice(path, Min(slashes)))

\* normalizeString of an absolute path: an empty segment and "." are
\* dropped, ".." removes the segment before it and is dropped at the root
RECURSIVE NormalizeSegments(_, _)
NormalizeSegments(segments, out) ==
    IF segments = <<>> THEN out
    ELSE LET seg == Head(segments)
         IN  IF seg = <<>> \/ seg = <<".">>
             THEN NormalizeSegments(Tail(segments), out)
             ELSE IF seg = <<".", ".">>
             THEN NormalizeSegments(Tail(segments),
                                    SubSeq(out, 1, Len(out) - 1))
             ELSE NormalizeSegments(Tail(segments), Append(out, seg))

RECURSIVE JoinSegments(_)
JoinSegments(segments) ==
    IF segments = <<>> THEN <<>>
    ELSE <<"/">> \o Head(segments) \o JoinSegments(Tail(segments))

\* normalize(path) of an absolute path; a trailing separator is kept
normalize(path) ==
    LET body == JoinSegments(NormalizeSegments(SplitPath(path), <<>>))
    IN  IF body = <<>> THEN <<"/">>
        ELSE IF path[Len(path)] = "/" THEN body \o <<"/">> ELSE body

\* join(a, b) == normalize(`${a}/${b}`)
join(a, b) == normalize(a \o <<"/">> \o b)

\* dirname(path) of a normalized absolute path
dirname(path) ==
    LET slashes == {i \in 1..Len(path) : path[i] = "/"}
        last == CHOOSE i \in slashes : \A k \in slashes : k <= i
    IN  IF last = 1 THEN <<"/">> ELSE SubSeq(path, 1, last - 1)

\* path.replace(/%/g, "%25") and the percent-encoding of white space
EncodeToken(t) == IF t = "%" THEN "%25" ELSE IF t = " " THEN "%20" ELSE t

\* the pathname the URL parser keeps: dot segments are removed, and a path
\* that ends in one ends in "/"
UrlPathname(path) ==
    LET segments == SplitPath(path)
        last == segments[Len(segments)]
        body == JoinSegments(NormalizeSegments(segments, <<>>))
    IN  IF body = <<>> THEN <<"/">>
        ELSE IF last \in {<<>>, <<".">>, <<".", ".">>} THEN body \o <<"/">>
        ELSE body

\* toFileUrl(path).href
toFileUrl(path) ==
    LET pathname == UrlPathname(path)
    IN  <<"file:", "/", "/">> \o
        [i \in 1..Len(pathname) |-> EncodeToken(pathname[i])]

\* resolveImportPath(path, baseDir)
resolveImportPath(path, baseDir) ==
    IF isUrl(path) THEN path
    ELSE IF StartsWith(path, <<".", "/">>) \/ StartsWith(path, <<".", ".", "/">>)
    THEN toFileUrl(join(baseDir, path))
    ELSE IF isAbsolute(path) THEN toFileUrl(path)
    ELSE path

ProtoKey == <<"__proto__">>

\* obj[key] = value on an object literal: an existing own property keeps its
\* place and gets the value, a new one is added last; "__proto__" names the
\* accessor of Object.prototype, which adds no own property
SetProperty(obj, key, value) ==
    IF key = ProtoKey THEN obj
    ELSE IF \E i \in 1..Len(obj) : obj[i][1] = key
    THEN [i \in 1..Len(obj) |->
            IF obj[i][1] = key THEN <<key, value>> ELSE obj[i]]
    ELSE Append(obj, <<key, value>>)

\* for (const [key, value] of Object.entries(imports))
\*   resolvedImports[key] = resolveImportPath(value, importMapDir)
RECURSIVE ResolveImports(_, _, _)
ResolveImports(entries, importMapDir, acc) ==
    IF entries = <<>> THEN acc
    ELSE ResolveImports(Tail(entries), importMapDir,
            SetProperty(acc, Head(entries)[1],
                        resolveImportPath(Head(entries)[2], importMapDir)))

\* for (const [scopeKey, scopeImports] of Object.entries(importMap.scopes))
\*   resolvedScopes[resolveImportPath(scopeKey, ...)] = resolvedScopeImports
RECURSIVE ResolveScopes(_, _, _)
ResolveScopes(scopes, importMapDir, acc) ==
    IF scopes = <<>> THEN acc
    ELSE ResolveScopes(Tail(scopes), importMapDir,
            SetProperty(acc,
                        resolveImportPath(Head(scopes)[1], importMapDir),
                        ResolveImports(Head(scopes)[2], importMapDir, <<>>)))

\* const importMapDir = dirname(isAbsolute(path) ? path : join(cwd, path))
ImportMapDir(path) ==
    dirname(IF isAbsolute(path) THEN path ELSE join(Cwd, path))

resolveImportMap(im, path) ==
    [imports |-> ResolveImports(im.imports, ImportMapDir(path), <<>>),
     scopes |-> ResolveScopes(im.scopes, ImportMapDir(path), <<>>)]

(***************************************************************************)
(* resolveImportMap on bounded inputs                                      *)
(***************************************************************************)
\* "./x", "../x", "./x y", "/y", a URL, a bare specifier, "." and ".."
LValues ==
    { <<".", "/", "x">>, <<".", ".", "/", "x">>,
      <<".", "/", "x", " ", "y">>, <<"/", "y">>, UrlR, Lib,
      <<".">>, <<".", ".">> }

LKeys == { Lib, ProtoKey }

\* "./v/", "file:///p/c/v/" and "https://h/"
LScopeKeys ==
    { <<".", "/", "v", "/">>,
      <<"file:", "/", "/", "/", "p", "/", "c", "/", "v", "/">>,
      <<"https:", "/", "/", "h", "/">> }

LScopedValues == { <<".", "/", "x">>, Lib }

\* "/p/c/m" and "m": an absolute path, and one relative to Deno.cwd()
LPaths == { <<"/", "p", "/", "c", "/", "m">>, <<"m">> }

LImportMaps ==
    { [imports |-> es, scopes |-> ss] :
        es \in { e \in EntrySeqs(LKeys, LValues, MaxEntries) : DistinctKeys(e) },
        ss \in { x \in EntrySeqs(LScopeKeys,
                                 EntrySeqs({Lib}, LScopedValues, 1) \ {<<>>},
                                 MaxScopes) : DistinctKeys(x) } }

InitResolveMap ==
    /\ lMap \in LImportMaps
    /\ lPath \in LPaths
    /\ lResult = <<>>
    /\ lDone = FALSE
    /\ EngineUnused
    /\ ResolverUnused
    /\ MetaUnused
    /\ HashUnused
    /\ FinderUnused
    /\ GraphUnused

ResolveMap ==
    /\ ~lDone
    /\ lResult' = resolveImportMap(lMap, lPath)
    /\ lDone' = TRUE
    /\ UNCHANGED <<lMap, lPath, rvars, mvars, hvars, fvars, gvars, evars>>

NextResolveMap == ResolveMap

SpecResolveMap == InitResolveMap /\ [][NextResolveMap]_vars

(***************************************************************************)
(* Vocabulary of the properties                                            *)
(***************************************************************************)
EndsWithSlash(k) == Len(k) > 0 /\ k[Len(k)] = "/"

\* the matching rule of an import map: an exact match, or a key ending in
\* "/" that is a prefix of the specifier
PrefixRuleMatches(key, specifier) ==
    specifier = key \/ (EndsWithSlash(key) /\ StartsWith(specifier, key))

\* the module URL a specifier of module u denotes: its import-map-resolved
\* target, when that is relative, file:, http: or https:, else NoUrl
TargetOf(u, specifier) ==
    LET t == FirstReplacer(u, specifier)
    IN  IF shouldProcess(t) THEN DependencyUrl(t, u) ELSE NoUrl

\* module u has an import clause that denotes module v
ImportsModule(u, v) ==
    \E i \in 1..Len(source[u].imports) : TargetOf(u, source[u].imports[i]) = v

\* the transformation of u has completed and its artifact is on disk
Artifact(u) == disk[transformedModules[u]]

Completed(u) ==
    /\ u \in DOMAIN transformedModules
    /\ u \notin processingModules
    /\ transformedModules[u] \in DOMAIN disk

RootUrl(c) == NewURL(ispec[c], ImporterUrl)

(***************************************************************************)
(* C1. A single import(root) call over a finite module graph with          *)
(* readable sources (self-imports and cycles included) eventually          *)
(* completes: once made, the call returns its module.                      *)
(***************************************************************************)
C1_ImportCompletes ==
    \A c \in Calls : (ipc[c] \in {"awaiting", "loading"}) ~> (ipc[c] = "done")

\* a call has completed on a three-module cycle a -> b -> r -> a
C1_Witness ==
    /\ \E c \in Calls : ipc[c] = "done" /\ RootUrl(c) = UrlA
    /\ {UrlA, UrlB, UrlR} \subseteq known
    /\ ImportsModule(UrlA, UrlB)
    /\ ImportsModule(UrlB, UrlR)
    /\ ImportsModule(UrlR, UrlA)

(***************************************************************************)
(* C2. For two modules that import each other, after import() of one of    *)
(* them has succeeded, each one's cache artifact holds the other's cache   *)
(* URL in every import clause that denotes the other.                      *)
(***************************************************************************)
LinkedTo(u, v) ==
    /\ Completed(u)
    /\ Completed(v)
    /\ \A i \in 1..Len(source[u].imports) :
         TargetOf(u, source[u].imports[i]) = v =>
            Artifact(u).imports[i] = transformedModules[v]

C2_MutualCacheLinks ==
    \A c \in Calls : \A v \in known :
        (/\ ipc[c] = "done"
         /\ RootUrl(c) \in known
         /\ ImportsModule(RootUrl(c), v)
         /\ ImportsModule(v, RootUrl(c)))
        => (LinkedTo(RootUrl(c), v) /\ LinkedTo(v, RootUrl(c)))

(***************************************************************************)
(* C3. Once import(s) has succeeded, a later import(s) returns the module  *)
(* object stored for s, which never changes, and performs no source read,  *)
(* no transformation, no cache write and no host module load.              *)
(***************************************************************************)
C3_CachedImportIsNoOp ==
    [][/\ \A s \in DOMAIN cache : s \in DOMAIN cache' /\ cache'[s] = cache[s]
       /\ \A c \in Calls :
            (ipc[c] = "idle" /\ ipc'[c] # "idle" /\ ispec'[c] \in DOMAIN cache)
            => /\ ipc'[c] = "done"
               /\ iresult'[c] = cache[ispec'[c]]
               /\ UNCHANGED <<reads, writes, loads, disk, hostLoaded>>
               /\ UNCHANGED <<transformedModules, processingModules,
                              transformationPromises, taskvars>>]_vars

\* a second call with the specifier of a completed call has returned
C3_Witness ==
    /\ ipc[1] = "done"
    /\ ipc[2] = "done"
    /\ ispec[1] = ispec[2]
    /\ iresult[1] = iresult[2]
    /\ loads = 1

(***************************************************************************)
(* C4. The source of each module URL is read (and so transformed) at most  *)
(* once, however dependents and overlapping import() calls interleave.     *)
(***************************************************************************)
C4_ReadAtMostOnce == \A u \in Urls : reads[u] <= 1

\* two overlapping import() calls await one transformation of a module that
\* a third module in flight depends on too
C4_Witness ==
    /\ ipc[1] = "awaiting"
    /\ ipc[2] = "awaiting"
    /\ iwait[1] # iwait[2]
    /\ \E u \in Urls : \E v \in Urls : \E w \in Urls :
         /\ u # v
         /\ \E d \in tpending[u] : d.on = w
         /\ \E d \in tpending[v] : d.on = w
         /\ reads[w] = 1

(***************************************************************************)
(* C5. After a successful import, every import clause of a transformed     *)
(* module whose resolved target is relative, file:, http: or https: and    *)
(* whose dependency has been transformed holds the dependency's cache URL  *)
(* in the module's cache artifact.                                         *)
(***************************************************************************)
C5_DependenciesLinkedToCache ==
    (\E c \in Calls : ipc[c] = "done") =>
    \A u \in known :
        Completed(u) =>
        \A i \in 1..Len(source[u].imports) :
            LET v == TargetOf(u, source[u].imports[i])
            IN  (v # NoUrl /\ v \in known /\ Completed(v))
                => Artifact(u).imports[i] = transformedModules[v]

(***************************************************************************)
(* C6. With a global key K ending in "/" and no other matching key, a      *)
(* specifier that starts with K resolves to the target of K followed by    *)
(* the remainder of the specifier after K.                                 *)
(***************************************************************************)
C6_PrefixKeyResolves ==
    rDone =>
    \A i \in 1..Len(rImports) :
        (/\ EndsWithSlash(rImports[i][1])
         /\ StartsWith(rSpecifier, rImports[i][1])
         /\ \A k \in 1..Len(rImports) :
              k # i => /\ ~PrefixRuleMatches(rImports[k][1], rSpecifier)
                       /\ ~KeyMatches(rImports[k][1], rSpecifier))
        => rResult = rImports[i][2] \o Slice(rSpecifier, Len(rImports[i][1]))

(***************************************************************************)
(* C7. A specifier equal to a global key, and matched by no earlier key     *)
(* (an equal key, or a key ending in "/" that is a prefix of it), resolves  *)
(* to exactly the mapped target, with nothing appended.                     *)
(***************************************************************************)
C7_ExactKeyResolves ==
    rDone =>
    \A i \in 1..Len(rImports) :
        (/\ rSpecifier = rImports[i][1]
         /\ \A k \in 1..(i - 1) :
              ~PrefixRuleMatches(rImports[k][1], rSpecifier))
        => rResult = rImports[i][2]

(***************************************************************************)
(* C8. A specifier that equals no key and starts with no key ending in     *)
(* "/", in the global imports and in every scope matching the importing    *)
(* URL, is returned unchanged.                                             *)
(***************************************************************************)
C8_IdentityFallback ==
    rDone =>
    ((/\ \A i \in 1..Len(rImports) :
           ~PrefixRuleMatches(rImports[i][1], rSpecifier)
      /\ \A j \in 1..Len(rScopes) :
           StartsWith(rUrl, rScopes[j][1]) =>
             \A k \in 1..Len(rScopes[j][2]) :
                ~PrefixRuleMatches(rScopes[j][2][k][1], rSpecifier))
     => rResult = rSpecifier)

(***************************************************************************)
(* C9. When the importing URL starts with a scope key, that scope maps     *)
(* specifier S, and the global imports map S to a different target, the    *)
(* resolver returns the scope's target.                                    *)
(***************************************************************************)
C9_ScopeOverridesGlobal ==
    rDone =>
    \A j \in 1..Len(rScopes) : \A k \in 1..Len(rScopes[j][2]) :
      \A i \in 1..Len(rImports) :
        (/\ StartsWith(rUrl, rScopes[j][1])
         /\ rScopes[j][2][k][1] = rSpecifier
         /\ rImports[i][1] = rSpecifier
         /\ rImports[i][2] # rScopes[j][2][k][2]
         /\ \A j2 \in 1..Len(rScopes) :
              j2 # j => ~StartsWith(rUrl, rScopes[j2][1]))
        => rResult = rScopes[j][2][k][2]

(***************************************************************************)
(* C10. A scope whose key is not a prefix of the importing URL does not    *)
(* influence resolution: the result equals the result with that scope      *)
(* removed from the import map.                                            *)
(***************************************************************************)
WithoutScope(scopes, j) ==
    SubSeq(scopes, 1, j - 1) \o SubSeq(scopes, j + 1, Len(scopes))

C10_NonMatchingScopeIgnored ==
    rDone =>
    \A j \in 1..Len(rScopes) :
        ~StartsWith(rUrl, rScopes[j][1])
        => rResult = applyImportMapToSpecifier(
                        rImports, WithoutScope(rScopes, j), rUrl, rSpecifier)

\* a scope that is not a prefix of the URL maps the specifier, and nothing
\* else does
C10_Witness ==
    /\ rDone
    /\ rResult = rSpecifier
    /\ \E j \in 1..Len(rScopes) :
         /\ ~StartsWith(rUrl, rScopes[j][1])
         /\ Len(rScopes[j][2]) = 1
         /\ rScopes[j][2][1][1] = rSpecifier

(***************************************************************************)
(* C11. If the source of the root module cannot be obtained, import()      *)
(* rejects: the call never reaches the host module load, nothing is        *)
(* stored in the in-memory cache for its specifier, and the call           *)
(* eventually throws.                                                      *)
(***************************************************************************)
RootUnreadable(c) == ipc[c] # "idle" /\ <<"read", RootUrl(c)>> \in faults

C11_RootReadFailureRejects ==
    \A c \in Calls :
        /\ [](RootUnreadable(c) =>
                /\ ipc[c] \in {"awaiting", "failed"}
                /\ ispec[c] \notin DOMAIN cache)
        /\ (RootUnreadable(c) ~> (ipc[c] = "failed"))

\* a call whose root could not be read has thrown, after a call that
\* returned its module
C11_Witness ==
    /\ ipc[1] = "done"
    /\ ipc[2] = "failed"
    /\ RootUnreadable(2)
    /\ reads[RootUrl(2)] = 1
    /\ loads = 1

(***************************************************************************)
(* C12. If the recursive transform of a dependency fails, the parent's     *)
(* transformation is not aborted: the parent is still written to its       *)
(* cache path, with the failed dependency's specifier replaced by its      *)
(* resolved absolute URL and every sibling dependency that has been        *)
(* transformed replaced by its cache URL.                                  *)
(***************************************************************************)
\* the `.catch` callback of module w for transformed specifier t has run
Caught(w, t) == \E r \in rejections : <<w, t>> \in r.caught

\* the specifier of the i-th import clause of w after the first pass
TransformedSpecifier(w, i) == FirstPass(w, source[w]).imports[i]

C12_FailedDependencyKeepsResolvedUrl ==
    \A w \in known :
        ((\E r \in rejections : \E p \in r.caught : p[1] = w)
         /\ <<"write", w>> \notin faults)
        => /\ tpc[w] \in {"awaitingDeps", "idle"}
           /\ tpc[w] = "idle" =>
                /\ Completed(w)
                /\ \A i \in 1..Len(source[w].imports) :
                     LET t == TransformedSpecifier(w, i)
                         v == TargetOf(w, source[w].imports[i])
                     IN  IF Caught(w, t)
                         THEN Artifact(w).imports[i] = DependencyUrl(t, w)
                         ELSE (v # NoUrl /\ Completed(v))
                              => Artifact(w).imports[i] = transformedModules[v]

(***************************************************************************)
(* C13. A cache directory-creation or cache file-write failure that        *)
(* occurs while an import() call is being served is fatal: that call       *)
(* rejects, whichever module's artifact was being written.                 *)
(***************************************************************************)
C13_CacheWriteFailureIsFatal ==
    \A r \in rejections :
        r.operation = "write" => \A c \in r.calls : ipc[c] # "done"

(***************************************************************************)
(* C14. Each current-module-URL reference (import.meta.url, with any       *)
(* white space or newlines around the dots) of a module is replaced by a   *)
(* string literal equal to the module's own original URL.                  *)
(***************************************************************************)
\* text with every occurrence of one of the references replaced by literal
RECURSIVE Substitute(_, _, _)
Substitute(text, references, literal) ==
    IF text = <<>> THEN <<>>
    ELSE LET hits == {r \in references : StartsWith(text, r)}
         IN  IF hits # {}
             THEN literal \o Substitute(Slice(text, Len(CHOOSE r \in hits : TRUE)),
                                        references, literal)
             ELSE <<Head(text)>> \o Substitute(Tail(text), references, literal)

Mentions(text, word) == \E i \in 1..Len(text) : text[i] = word

\* the string literal whose value is str
LiteralOf(str) == <<Quote>> \o str \o <<Quote>>

C14_MetaUrlIsOriginalUrl ==
    (/\ mDone
     /\ ~Mentions(mText, "filename")
     /\ ~Mentions(mText, "dirname")
     /\ ~Mentions(mText, "resolve"))
    => mResult = Substitute(mText, MetaReferences("url"), LiteralOf(mUrl))

(***************************************************************************)
(* C15. replaceImportMeta replaces current-module-filename and             *)
(* current-module-directory references by the literal paths derived from   *)
(* the original URL only when the original URL is a file: URL; for any     *)
(* other original URL those references are left textually untouched while  *)
(* the current-module-URL references are still replaced.                   *)
(***************************************************************************)

\* the path of a file: URL and the directory of that path
PathOf(url) == Slice(url, 3)

DirectoryOf(url) == pathDirname(PathOf(url))

C15_FilenameAndDirnameOnlyForFileUrls ==
    (mDone /\ ~Mentions(mText, "resolve")) =>
        IF IsFileUrl(mUrl)
        THEN ~Mentions(mText, "url") =>
                mResult = Substitute(
                            Substitute(mText, MetaReferences("filename"),
                                       LiteralOf(PathOf(mUrl))),
                            MetaReferences("dirname"),
                            LiteralOf(DirectoryOf(mUrl)))
        ELSE mResult = Substitute(mText, MetaReferences("url"), LiteralOf(mUrl))

(***************************************************************************)
(* C16. For every call import.meta.resolve(arg), whatever expression arg   *)
(* is (string literal, identifier, or an expression that itself contains   *)
(* a call with parentheses), replaceImportMeta produces                    *)
(* new URL(arg, "<originalUrl>").href with arg preserved.                  *)
(***************************************************************************)
\* the expression without the white space around it
RECURSIVE Expression(_)
Expression(argument) ==
    IF argument # <<>> /\ Head(argument) = " " THEN Expression(Tail(argument))
    ELSE IF argument # <<>> /\ argument[Len(argument)] = " "
    THEN Expression(SubSeq(argument, 1, Len(argument) - 1))
    ELSE argument

\* new URL(arg, "<originalUrl>").href
NewUrlHref(argument, originalUrl) ==
    <<"new", " ", "URL", "(">> \o Expression(argument) \o <<",", " ">>
    \o LiteralOf(originalUrl) \o <<")", ".", "href">>

C16_ResolveKeepsArgument ==
    mDone =>
    \A a \in ResolveArguments : \A pre \in MetaPrefixes :
        mText = pre \o ResolveCall(a)
        => mResult = pre \o NewUrlHref(a, mUrl)

(***************************************************************************)
(* C17. A module whose source contains no import/export syntax is written  *)
(* to the cache with content equal to its source except for the rewriting  *)
(* of its import.meta references (and an optional banner comment), and     *)
(* the resolver is never invoked for it; when it also uses no import.meta  *)
(* the artifact is identical to the source.                                *)
(***************************************************************************)
C17_NoImportsNoRewrite ==
    \A u \in known :
        source[u].imports = <<>> =>
            /\ u \notin resolved
            /\ Completed(u) =>
                 /\ Artifact(u).imports = <<>>
                 /\ Artifact(u).banner \in {<<>>, u}
                 /\ Artifact(u).body =
                        Substitute(source[u].body, MetaReferences("url"),
                                   LiteralOf(u))
                 /\ ~Mentions(source[u].body, "meta")
                        => Artifact(u) = source[u]

(***************************************************************************)
(* C18. Changing any one of the three inputs of the cache hash             *)
(* (specifier, source text, import map) while keeping the other two fixed  *)
(* changes the hash, and therefore the cache path.                         *)
(***************************************************************************)
\* the argument triples differ in exactly one component
DifferInOne(a, b) == Cardinality({k \in 1..3 : a[k] # b[k]}) = 1

\* the hash within a cache path: what follows the two shard directories
HashOfPath(path) == SubSeq(path, 7, 6 + HashLength)

C18_HashDependsOnEachInput ==
    \A i \in 1..Len(hResult) : \A j \in 1..Len(hResult) :
        DifferInOne(hArgs[i], hArgs[j])
        => /\ HashOfPath(hResult[i]) # HashOfPath(hResult[j])
           /\ hResult[i] # hResult[j]

\* two calls whose import maps differ, and nothing else, have returned
C18_Witness ==
    /\ Len(hResult) = 2
    /\ hArgs[1][1] = hArgs[2][1]
    /\ hArgs[1][2] = hArgs[2][2]
    /\ hArgs[1][3] # hArgs[2][3]
    /\ hResult[1] # hResult[2]

(***************************************************************************)
(* C19. getCachePath returns hash[0:2]/hash[2:4]/hash-basename where hash  *)
(* is the 64-hex-digit digest of the triple and basename is the last       *)
(* non-empty segment of the specifier's URL path (query string ignored),   *)
(* or "index.ts" when the path has no segment.                             *)
(***************************************************************************)
\* the last non-empty path segment of each specifier of the inputs
ExpectedBasename(specifier) ==
    CASE specifier = UrlA -> <<"a">>
      [] specifier = UrlQuery -> <<"r">>
      [] specifier = UrlDir -> <<"d">>
      [] specifier = UrlRoot -> <<"index.ts">>

C19_CachePathLayout ==
    \A i \in 1..Len(hResult) :
        LET hash == getCacheHashHex(hArgs[i][1], hArgs[i][2], hArgs[i][3])
        IN  /\ Len(hash) = 64
            /\ hResult[i] =
                  SubSeq(hash, 1, 2) \o <<"/">> \o SubSeq(hash, 3, 4)
                  \o <<"/">> \o hash \o <<"-">>
                  \o ExpectedBasename(hArgs[i][1])

\* the path of a specifier with a query string and the path of a specifier
\* without path segment have been returned
C19_Witness ==
    /\ Len(hResult) = 2
    /\ hArgs[1][1] = UrlQuery
    /\ hArgs[2][1] = UrlRoot
    /\ SubSeq(hResult[1], Len(hResult[1]) - 1, Len(hResult[1])) = <<"-", "r">>
    /\ hResult[2][Len(hResult[2])] = "index.ts"

Fresh(j) ==
    /\ j \notin inst.called
    /\ j = inst.self => Cardinality(CallsMade) = inst.since

\* C21: an instance on which import() has not been called has an empty memo
\* table, in-progress set, promise map and module cache, whatever has been
\* imported through the other instances; the import() calls made on one
\* instance change the fields of no other instance, so that the program,
\* turning back to an instance, finds its four fields as it left them.
C21_InstancesShareNoFields ==
    /\ [](Fresh(inst.self) => ThisFields = NewFields)
    /\ [](\A j \in Instances \ {inst.self} :
            Fresh(j) => inst.fields[j] = NewFields)
    /\ [][\A j \in Instances \ {inst.self, inst'.self} :
            inst'.fields[j] = inst.fields[j]]_vars
    /\ [][inst'.self # inst.self =>
            /\ ThisFields' = inst.fields[inst'.self]
            /\ inst'.fields[inst.self] = ThisFields]_vars

\* the program is using the second instance, which has transformed a
\* module, after the first instance has imported one
C21_Witness ==
    /\ inst.self = 2
    /\ 1 \in inst.called
    /\ inst.fields[1].cache # EmptyMap
    /\ inst.fields[1].transformedModules # EmptyMap
    /\ transformedModules # EmptyMap
    /\ cache # EmptyMap

(***************************************************************************)
(* C22  Writers of one cache path write the same bytes.                    *)
(***************************************************************************)
\* C22: whenever a transformation writes to a cache path that already holds
\* an artifact (written by the same or by another instance over the same
\* cache directory), it writes the content the path holds: no write changes
\* the content of an existing artifact.
C22_SamePathSameContent ==
    [][\A p \in DOMAIN disk : p \in DOMAIN disk' /\ disk'[p] = disk[p]]_vars

(***************************************************************************)
(* C23  resolveImportMap: which values become file: URLs.                  *)
(***************************************************************************)
\* the value starts with "./" or "../"
RelativeLooking(v) ==
    StartsWith(v, <<".", "/">>) \/ StartsWith(v, <<".", ".", "/">>)

\* the file: URL of directory dir
DirectoryUrl(dir) ==
    IF dir = <<"/">> THEN FileRoot ELSE <<"file:", "/", "/">> \o dir \o <<"/">>

\* the directory above dir
ParentOf(dir) == dirname(dir)

\* the URL of the relative reference v in directory dir: a leading "./"
\* stays in dir, a leading "../" goes to the directory above
RECURSIVE Against(_, _)
Against(dir, v) ==
    IF StartsWith(v, <<".", "/">>) THEN Against(dir, Slice(v, 2))
    ELSE IF StartsWith(v, <<".", ".", "/">>)
    THEN Against(ParentOf(dir), Slice(v, 3))
    ELSE DirectoryUrl(dir) \o [i \in 1..Len(v) |-> EncodeToken(v[i])]

\* what the claim says resolveImportMap makes of a value
ResolvedValue(dir, v) ==
    IF isUrl(v) THEN v
    ELSE IF RelativeLooking(v) THEN Against(dir, v)
    ELSE IF isAbsolute(v) THEN <<"file:", "/", "/">> \o v
    ELSE v

ResolvedEntries(dir, entries) ==
    [i \in 1..Len(entries) |->
        <<entries[i][1], ResolvedValue(dir, entries[i][2])>>]

\* C23: in the import map resolveImportMap returns, the imports have the
\* keys of the input, in its order; every scope of the input is there under
\* its key, and no other scope; and every imports value, scope key and
\* scoped value is the input's, turned into an absolute file: URL against
\* the directory of the import-map file when it starts with "./" or "../"
\* or is an absolute path, and unchanged when it is a URL or a bare
\* specifier ("." and ".." included).
C23_RelativeValuesBecomeFileUrls ==
    lDone =>
        LET dir == ImportMapDir(lPath)
            Scope(j) == <<ResolvedValue(dir, lMap.scopes[j][1]),
                          ResolvedEntries(dir, lMap.scopes[j][2])>>
        IN  /\ lResult.imports = ResolvedEntries(dir, lMap.imports)
            /\ \A j \in 1..Len(lMap.scopes) :
                    \E k \in 1..Len(lResult.scopes) :
                        lResult.scopes[k] = Scope(j)
            /\ \A k \in 1..Len(lResult.scopes) :
                    \E j \in 1..Len(lMap.scopes) :
                        lResult.scopes[k] = Scope(j)

(***************************************************************************)
(* An instance constructed with options.clearDenoCache = true, over a host *)
(* cache that holds files from earlier runs                                *)
(***************************************************************************)
InitClear ==
    /\ InitInstance(TRUE)
    /\ NoFaults
    /\ PlainBodies
    /\ ResolverUnused
    /\ MetaUnused
    /\ HashUnused
    /\ LoaderUnused
    /\ FinderUnused
    /\ GraphUnused

SpecClear == InitClear /\ [][NextSeq]_vars

(***************************************************************************)
(* C24. When the importer is constructed with the clear-prior-cache        *)
(* option, then for every module URL that is transformed (the root and     *)
(* every dependency, local or remote) the host-level cached artifact of    *)
(* that URL and its sidecar metadata file have been removed before the     *)
(* module's source is read: at every read of a module's source, neither    *)
(* file of that module is in the host's cache.                             *)
(***************************************************************************)
SourceRead(u) == reads'[u] > reads[u]

C24_ClearedBeforeRead ==
    [][clearDenoCache =>
         \A u \in Urls :
            SourceRead(u) => /\ DenoCacheFile(u) \notin denoCache
                             /\ DenoCacheMetadata(u) \notin denoCache]_vars

(***************************************************************************)
(* C25. A module URL is in the Cached state only when its rewritten source *)
(* has been written: in every reachable state, if the memo table holds a   *)
(* cache URL for a module URL and that module's transformation is no       *)
(* longer in progress (whether it ended by success or by failure), then    *)
(* the artifact at that cache URL exists on disk.                          *)
(***************************************************************************)
InProgress(u) == tpc[u] # "idle"

C25_MemoizedMeansWritten ==
    \A u \in Urls :
        (IsMemoized(transformedModules, u) /\ ~InProgress(u))
            => transformedModules[u] \in DOMAIN disk

(***************************************************************************)
(* Vocabulary: the #transformModule calls made in one step                 *)
(***************************************************************************)
\* the body of the transformation of u runs its dependency loop in this step
IssuesDependencies(u) == tpc[u] = "replacing" /\ tpc'[u] = "awaitingDeps"

\* the specifiers for which that loop calls #transformModule
SpecifiersOf(u) ==
    LET ps == ProcessedSpecifiers(OriginalToTransformed(u, tcode[u]))
    IN  {ps[i] : i \in 1..Len(ps)}

\* import() call c calls #transformModule in this step
CallsTransform(c) == ipc[c] = "idle" /\ ipc'[c] \in {"awaiting", "loading"}

RequestedBy(c) == NewURL(ispec'[c], ImporterUrl)

\* the value the claim gives to a call for a URL in progress
AtOnceValue(url) ==
    IF IsMemoized(transformedModules', url) THEN transformedModules'[url]
    ELSE url

(***************************************************************************)
(* C26. A #transformModule call for a URL that is currently InProgress     *)
(* returns without waiting for the in-flight transformation: it returns    *)
(* the registered cache URL if that has already been computed, and         *)
(* otherwise the raw module URL.                                           *)
(***************************************************************************)
C26_InProgressReturnsAtOnce ==
    [][/\ \A u \in Urls : IssuesDependencies(u) =>
            \A t \in SpecifiersOf(u) :
                LET d == DependencyUrl(t, u)
                IN  IsProcessing(processingModules, d) =>
                        /\ t \in DOMAIN tt2c'[u]
                        /\ tt2c'[u][t] = AtOnceValue(d)
       /\ \A c \in Calls :
            (CallsTransform(c) /\ IsProcessing(processingModules, RequestedBy(c)))
                => /\ ipc'[c] = "loading"
                   /\ iurl'[c] = AtOnceValue(RequestedBy(c))]_vars

(***************************************************************************)
(* C26, amended. A #transformModule call for a URL that is currently       *)
(* InProgress returns the registered cache URL without waiting if that     *)
(* has already been computed; otherwise it returns the promise of the      *)
(* in-flight transformation, so its caller waits for that transformation   *)
(* to settle.                                                              *)
(***************************************************************************)
C26_InProgressWaitsUnlessRegistered ==
    [][/\ \A u \in Urls : IssuesDependencies(u) =>
            \A t \in SpecifiersOf(u) :
                LET d == DependencyUrl(t, u)
                IN  IsProcessing(processingModules, d) =>
                        IF IsMemoized(transformedModules', d)
                        THEN /\ t \in DOMAIN tt2c'[u]
                             /\ tt2c'[u][t] = transformedModules'[d]
                        ELSE /\ t \notin DOMAIN tt2c'[u]
                             /\ [spec |-> t, on |-> d] \in tpending'[u]
       /\ \A c \in Calls :
            (CallsTransform(c) /\ IsProcessing(processingModules, RequestedBy(c)))
                => IF IsMemoized(transformedModules, RequestedBy(c))
                   THEN /\ ipc'[c] = "loading"
                        /\ iurl'[c] = transformedModules[RequestedBy(c)]
                   ELSE /\ ipc'[c] = "awaiting"
                        /\ iwait'[c] = RequestedBy(c)]_vars

\* an import() call and a dependency promise wait for the same
\* transformation, and a dependency was answered from the registration of a
\* transformation still in progress
C26_Witness ==
    /\ \E u \in Urls : \E d \in tpending[u] : \E c \in Calls :
            ipc[c] = "awaiting" /\ iwait[c] = d.on
    /\ \E u \in Urls : \E t \in DOMAIN tt2c[u] :
            \E w \in Urls : /\ InProgress(w)
                            /\ IsMemoized(transformedModules, w)
                            /\ tt2c[u][t] = transformedModules[w]

(***************************************************************************)
(* C27. Every dependency specifier of a transformed module whose resolved  *)
(* target is relative, file:, http: or https: gets a recursive             *)
(* #transformModule call, whether or not the import map changed the        *)
(* specifier: when the module's dependency loop has run, the target of     *)
(* each of its import clauses is memoized or has its transformation in     *)
(* progress.                                                               *)
(***************************************************************************)
Requested(v) ==
    \/ IsMemoized(transformedModules', v)
    \/ IsProcessing(processingModules', v)

C27_EveryDependencyIsTransformed ==
    [][\A u \in Urls : IssuesDependencies(u) =>
          \A i \in 1..Len(tcode[u].imports) :
              LET v == TargetOf(u, tcode[u].imports[i])
              IN  v # NoUrl => Requested(v)]_vars

(***************************************************************************)
(* C28. The final rewritten source of a module is written to its cache     *)
(* path only after the recursive transform call of every one of its direct *)
(* dependencies has settled, i.e. returned a URL or failed and been        *)
(* replaced by the fallback URL: at the step that writes the final code    *)
(* of a module, each specifier its dependency loop called #transformModule *)
(* for has its URL in the module's transformedToCachedUrls.                *)
(***************************************************************************)
WritesFinalCode(u) ==
    /\ tpc[u] = "awaitingDeps"
    /\ tpc'[u] = "idle"
    /\ writes' = writes + 1

\* the specifiers the dependency loop of u called #transformModule for
DependencyCallsOf(u) ==
    LET ps == ProcessedSpecifiers(OriginalToTransformed(u, source[u]))
    IN  {ps[i] : i \in 1..Len(ps)}

C28_WrittenAfterDependenciesSettle ==
    [][\A u \in Urls : WritesFinalCode(u) =>
          \A t \in DependencyCallsOf(u) :
              /\ t \in DOMAIN tt2c[u]
              /\ \A d \in tpending[u] : d.spec # t]_vars

\* a module has been written after one of its dependencies was transformed
\* and cached and another one failed and was replaced by its resolved URL
C28_Witness ==
    \E u \in known :
        /\ Completed(u)
        /\ \E r \in rejections : \E p \in r.caught : p[1] = u
        /\ \E i \in 1..Len(source[u].imports) :
              LET v == TargetOf(u, source[u].imports[i])
              IN  v # NoUrl /\ v # u /\ v \in known /\ Completed(v)

(***************************************************************************)
(* C29. Within one module's dependency set, the recursive transform call   *)
(* of every dependency is started before the result of any of them is      *)
(* awaited, so a dependency whose transformation never completes does not  *)
(* prevent the transformations of its siblings from being started: while   *)
(* a module awaits its dependencies, each of its dependency calls has      *)
(* returned a URL or waits for a transformation that is in progress.       *)
(***************************************************************************)
AwaitsDependencies(u) == tpc[u] = "awaitingDeps"

C29_AllIssuedBeforeAnyAwaited ==
    \A u \in Urls : AwaitsDependencies(u) =>
        \A t \in DependencyCallsOf(u) :
            \/ t \in DOMAIN tt2c[u]
            \/ \E d \in tpending[u] : d.spec = t /\ InProgress(d.on)

\* a module awaits two dependencies whose transformations are both in
\* progress, neither of which has read its source yet
C29_Witness ==
    \E u \in Urls : \E d \in tpending[u] : \E e \in tpending[u] :
        /\ AwaitsDependencies(u)
        /\ d.on # e.on
        /\ tpc[d.on] = "reading"
        /\ tpc[e.on] = "reading"

(***************************************************************************)
(* C30. When several scopes are prefixes of the importing module's URL and *)
(* each maps specifier S (and no global entry matches S), the result is    *)
(* the target of the first such scope in the insertion order of the scopes *)
(* object, not that of the longest scope prefix.                           *)
(***************************************************************************)
\* scope j is a prefix of the importing URL and its entry k, the first of
\* the scope that matches, has the specifier as its key
ScopeMaps(j, k) ==
    /\ StartsWith(rUrl, rScopes[j][1])
    /\ rScopes[j][2][k][1] = rSpecifier
    /\ \A k2 \in 1..(k - 1) : ~KeyMatches(rScopes[j][2][k2][1], rSpecifier)

ScopeMapsSpecifier(j) == \E k \in 1..Len(rScopes[j][2]) : ScopeMaps(j, k)

NoGlobalEntryMatches ==
    \A i \in 1..Len(rImports) : ~KeyMatches(rImports[i][1], rSpecifier)

C30_FirstScopeInInsertionOrderWins ==
    rDone =>
    \A j \in 1..Len(rScopes) : \A k \in 1..Len(rScopes[j][2]) :
        (/\ NoGlobalEntryMatches
         /\ ScopeMaps(j, k)
         /\ \A j2 \in 1..(j - 1) : ~ScopeMapsSpecifier(j2)
         /\ \E j3 \in (j + 1)..Len(rScopes) : ScopeMapsSpecifier(j3))
        => rResult = rScopes[j][2][k][2]

\* the first scope that maps the specifier has a shorter key than a later
\* one with another target, and the result is the target of the first
C30_Witness ==
    /\ rDone
    /\ NoGlobalEntryMatches
    /\ \E j \in 1..Len(rScopes) : \E j3 \in 1..Len(rScopes) :
          /\ j < j3
          /\ ScopeMapsSpecifier(j)
          /\ ScopeMapsSpecifier(j3)
          /\ \A j2 \in 1..(j - 1) : ~ScopeMapsSpecifier(j2)
          /\ Len(rScopes[j][1]) < Len(rScopes[j3][1])
          /\ rScopes[j][2][1][2] # rScopes[j3][2][1][2]
          /\ rResult = rScopes[j][2][1][2]

(***************************************************************************)
(* C31. The memo table only grows: once a module URL is mapped to a cache  *)
(* URL, the entry is never removed and never changed to a different cache  *)
(* URL during the lifetime of the Importer instance, and a completed       *)
(* module never re-enters InProgress.                                      *)
(***************************************************************************)
C31_MemoTableOnlyGrows ==
    [][\A u \in DOMAIN transformedModules :
          /\ u \in DOMAIN transformedModules'
          /\ transformedModules'[u] = transformedModules[u]
          /\ ~InProgress(u) => tpc'[u] = "idle"]_vars

\* a module was read once, an import() call failed, and a later call is
\* answered from the module's memo entry
C31_Witness ==
    \E u \in Urls : \E c \in Calls : \E d \in Calls :
        /\ d < c
        /\ ipc[d] = "failed"
        /\ ipc[c] \in {"loading", "done", "failed"}
        /\ IsMemoized(transformedModules, u)
        /\ iurl[c] = transformedModules[u]
        /\ reads[u] = 1

(***************************************************************************)
(* C32. findMissingImports never returns a replacement whose (startLine,   *)
(* startChar, endChar) equals that of a replacement already produced by    *)
(* the structural pass, and the spans it returns are pairwise distinct, so *)
(* no specifier occurrence is replaced twice.                              *)
(***************************************************************************)
ExistingKeys == {ReplacementKey(r) : r \in fExisting}

C32_NoSpanReturnedTwice ==
    fDone =>
        /\ \A i \in 1..Len(fResult) : ReplacementKey(fResult[i]) \notin ExistingKeys
        /\ \A i \in 1..Len(fResult) : \A j \in 1..Len(fResult) :
              ReplacementKey(fResult[i]) = ReplacementKey(fResult[j]) => i = j

\* the structural pass has replaced the specifier of one clause of the
\* source, and findMissingImports returns another clause's specifier
C32_Witness ==
    /\ fDone
    /\ Len(fResult) > 0
    /\ \E k \in 1..Len(fSegments) :
          /\ fSegments[k].kind = "clause"
          /\ <<Literal(fSegments, k).startLine, Literal(fSegments, k).startChar,
               Literal(fSegments, k).endChar>> \in ExistingKeys
          /\ fResult[1].specifier = Literal(fSegments, k).specifier

(***************************************************************************)
(* C33. findMissingImports reports an occurrence of a replaceable          *)
(* specifier only when it is the specifier of a real import/export ...     *)
(* from clause: text inside a dynamic import(...) call, inside a comment,  *)
(* or inside an ordinary string or template literal is never reported,     *)
(* even when that text itself looks like an import ... from "<specifier>"  *)
(* clause.                                                                 *)
(***************************************************************************)
\* the spans of the specifiers of the clauses of the source
ClauseSpans ==
    { <<Literal(fSegments, k).startLine, Literal(fSegments, k).startChar,
        Literal(fSegments, k).endChar>> :
        k \in {n \in 1..Len(fSegments) : fSegments[n].kind = "clause"} }

C33_OnlyRealClausesReported ==
    fDone => \A i \in 1..Len(fResult) : ReplacementKey(fResult[i]) \in ClauseSpans

(***************************************************************************)
(* C34. The one-time initialization of the structural parser is started at *)
(* most once per process: when several replaceImports calls run            *)
(* concurrently before initialization has finished, init() is invoked once *)
(* and all of them wait for that same initialization before building a     *)
(* graph.                                                                  *)
(***************************************************************************)
C34_InitializedOnce ==
    /\ inits <= 1
    /\ \A c \in DOMAIN gpc :
          gpc[c] \in {"graph", "done"} =>
              /\ denoGraphInitialized
              /\ initializationPromise = "fulfilled"
              /\ inits = 1

\* several calls wait while the one initialization is in progress
C34_Witness ==
    /\ inits = 1
    /\ initializationPromise = "pending"
    /\ \E c \in DOMAIN gpc : \E d \in DOMAIN gpc :
          c # d /\ gpc[c] = "awaiting" /\ gpc[d] = "awaiting"

(***************************************************************************)
(* C35. Whenever import() hands a cache URL to the host module loader, the *)
(* artifact at that URL and the artifacts of all modules it transitively   *)
(* imports through cache URLs have already been written, also when several *)
(* import() calls on the same instance overlap in time (for the same       *)
(* module, or for modules that share dependencies or lie on a common       *)
(* cycle).                                                                 *)
(***************************************************************************)
\* import() call c calls the host's import(transformedUrl) in this step
HandsToHost(c) == ipc[c] = "loading" /\ ipc'[c] # "loading"

AllWritten(url) ==
    \A x \in HostClosure({url}, {}) : IsCacheUrl(x) => x \in DOMAIN disk

C35_LoadedArtifactsAreWritten ==
    [][\A c \in Calls :
          (HandsToHost(c) /\ IsCacheUrl(iurl[c])) => AllWritten(iurl[c])]_vars

\* overlapping import() calls, every suspended operation eventually resumed
SpecOverlap == Init /\ [][Next]_vars /\ WF_vars(Loads) /\ FairTasks

\* the modules whose promises the transformation of u waits for
WaitsFor(u) == {d.on : d \in tpending[u]}

RECURSIVE WaitClosure(_, _)
WaitClosure(S, n) ==
    IF n = 0 THEN S
    ELSE WaitClosure(S \cup UNION {WaitsFor(v) : v \in S}, n - 1)

\* u waits, through any number of promises, for itself
InWaitCycle(u) == u \in WaitClosure(WaitsFor(u), Cardinality(Urls))

\* C36: overlapping import() calls over module graphs with cycles all settle;
\* the transformations in flight never wait for each other in a cycle; when a
\* transformation starts to wait for another one's promise it has registered
\* its own cache URL and the other one has not registered its own yet
C36_OverlappingCallsComplete ==
    /\ \A c \in Calls :
         (ipc[c] \in {"awaiting", "loading"}) ~> (ipc[c] \in {"done", "failed"})
    /\ [](\A u \in Urls : ~InWaitCycle(u))
    /\ [][\A u \in Urls : \A v \in WaitsFor(u)' \ WaitsFor(u) :
            /\ IsMemoized(transformedModules', u)
            /\ ~IsMemoized(transformedModules', v)]_vars

\* two import() calls overlap on a cycle: the transformation of one module
\* waits for the promise of a module in progress that imports it back
C36_Witness ==
    /\ ipc[1] = "awaiting"
    /\ ipc[2] = "awaiting"
    /\ \E u \in Urls : \E v \in WaitsFor(u) :
         /\ v # u
         /\ ImportsModule(v, u)
         /\ InProgress(v)

\* C37: the final content of a module with imports is written at the cache
\* URL registered for it before its dependencies were processed, which is the
\* URL computed from its first-pass code; the registered URL is not replaced
\* while the transformation runs
C37_WrittenAtRegisteredUrl ==
    [][\A u \in Urls :
         /\ WritesFinalCode(u) =>
              /\ IsMemoized(transformedModules, u)
              /\ transformedModules[u] = getCacheUrl(u, tcode[u])
              /\ disk' = MapSet(disk, transformedModules[u], FinalCode(u))
              /\ transformedModules'[u] = transformedModules[u]
         /\ (AwaitsDependencies(u) /\ AwaitsDependencies(u)') =>
              transformedModules'[u] = transformedModules[u]]_vars

\* a module was written at its registered URL although the URL computed from
\* its final code, in which a dependency's cache URL is substituted, differs
C37_Witness ==
    \E u \in known :
        LET firstPassCode == MetaReplaced(u, FirstPass(u, source[u]))
        IN  /\ IsMemoized(transformedModules, u)
            /\ tpc[u] = "idle"
            /\ transformedModules[u] = getCacheUrl(u, firstPassCode)
            /\ transformedModules[u] \in DOMAIN disk
            /\ disk[transformedModules[u]] # WithBanner(u, firstPassCode)
            /\ getCacheUrl(u, [disk[transformedModules[u]]
                                   EXCEPT !.banner = <<>>])
                  # transformedModules[u]

\* files, the network and the rewriting of imports may fail
AnyFaultSets ==
    { F \in SUBSET ({"read", "rewrite", "write"} \X Urls) :
        Cardinality(F) <= MaxFaults }

InitFailAny ==
    /\ InitEngine
    /\ faults \in AnyFaultSets
    /\ PlainBodies
    /\ ResolverUnused
    /\ MetaUnused
    /\ HashUnused
    /\ LoaderUnused
    /\ FinderUnused
    /\ GraphUnused

\* overlapping import() calls over files, a network and a rewriter that may
\* fail
SpecFailAny == InitFailAny /\ [][Next]_vars

\* no import() call is in flight
NoCallInFlight == \A c \in Calls : ipc[c] \notin {"awaiting", "loading"}

EndFault ==
    /\ \E f \in faults : faults' = faults \ {f}
    /\ UNCHANGED <<importMap, bodies, inst, clearDenoCache>>
    /\ UNCHANGED <<source, known, disk, hostLoaded, denoCache>>
    /\ UNCHANGED <<fieldvars, taskvars, callvars, countvars, histvars, purevars>>

NextTransient ==
    \/ NextSeq
    \/ EndFault

\* one import() call at a time, over files and a network whose faults may end
SpecTransient == InitFail /\ [][NextTransient]_vars

\* the read of the source of u fails in this step
ReadRejects(u) ==
    /\ tpc[u] = "reading"
    /\ \E r \in rejections' \ rejections : r.url = u /\ r.operation = "read"

\* the source of u was never read although a read of it was tried, and no
\* transformation of u is in progress
ReadFailed(u) == reads[u] > 0 /\ u \notin known /\ ~InProgress(u)

Unprocessed(u) ==
    /\ ~IsMemoized(transformedModules, u)
    /\ ~IsProcessing(processingModules, u)
    /\ u \notin transformationPromises

\* C39: a transformation whose read failed leaves its module neither memoized
\* nor in progress, and the module stays so until it is requested again; the
\* next import() call or dependency request for it starts a transformation
\* that reads the source again, and that read succeeds unless it fails too
C39_FailedReadLeavesUnprocessed ==
    /\ [][\A u \in Urls :
            /\ ReadRejects(u) => (Unprocessed(u)' /\ ~InProgress(u)')
            /\ (ReadFailed(u) /\ \E c \in Calls :
                    CallsTransform(c) /\ RequestedBy(c) = u)
                 => tpc'[u] = "reading"
            /\ (ReadFailed(u) /\ \E w \in Urls : \E t \in SpecifiersOf(w) :
                    IssuesDependencies(w) /\ DependencyUrl(t, w) = u)
                 => tpc'[u] = "reading"
            /\ (tpc[u] = "reading" /\ tpc'[u] # "reading" /\ ~ReadFails(u))
                 => (u \in known' /\ reads'[u] = reads[u] + 1)]_vars
    /\ [](\A u \in Urls : ReadFailed(u) => Unprocessed(u))

\* the source of a module could not be read, and a later import() call for
\* the module has been served
C39_Witness ==
    \E u \in known :
        /\ \E r \in rejections : r.url = u /\ r.operation = "read"
        /\ reads[u] = 2
        /\ Completed(u)
        /\ ipc[1] = "failed"
        /\ ipc[2] = "done"
        /\ RootUrl(2) = u

====
